---- MODULE Spec2Model ----
(***************************************************************************)
(* Model of testplan's remote worker pool (runners/pools/remote.py).       *)
(*                                                                         *)
(* A path is a sequence of one-character strings, so that the string       *)
(* operations of the source (startswith, rstrip, rpartition, sorting by    *)
(* code point) are computed character by character.  Directory names are   *)
(* abbreviated to one letter.                                              *)
(***************************************************************************)
EXTENDS Integers, Sequences, FiniteSets, TLC

(***************************************************************************)
(* Bounds of the model.                                                    *)
(***************************************************************************)
\* longest push list of the planning specification SpecPush
MaxPush == 4
\* MetadataPull requests handled in one run of Spec
MaxPulls == 2
\* the clock of the thread utilities runs from 0 to MaxClock ticks
MaxClock == 4
\* the timeouts passed to the thread utilities: 0 .. MaxTimeout ticks
MaxTimeout == 2

(***************************************************************************)
(* Python string operations on character sequences.                        *)
(***************************************************************************)
\* code point of a character (ord)
Ord(c) ==
    CASE c = "/" -> 47
      [] c = "T" -> 84
      [] c = "a" -> 97
      [] c = "b" -> 98
      [] c = "c" -> 99
      [] c = "d" -> 100
      [] c = "f" -> 102
      [] c = "p" -> 112
      [] c = "r" -> 114
      [] c = "w" -> 119
      [] c = "x" -> 120
      [] OTHER -> 122

\* a prefix test on whole path components instead of characters
startswith_components(s, p) ==
    \/ s = p
    \/ /\ Len(p) < Len(s)
       /\ SubSeq(s, 1, Len(p)) = p
       /\ s[Len(p) + 1] = "/"

\* str.startswith
startswith(s, p) ==
    /\ Len(p) <= Len(s)
    /\ SubSeq(s, 1, Len(p)) = p

\* str.__lt__ : lexicographic order by code point
RECURSIVE StrLess(_, _)
StrLess(s, t) ==
    IF t = <<>> THEN FALSE
    ELSE IF s = <<>> THEN TRUE
    ELSE IF Ord(Head(s)) # Ord(Head(t)) THEN Ord(Head(s)) < Ord(Head(t))
    ELSE StrLess(Tail(s), Tail(t))

\* str.rstrip(os.sep) with os.sep = "/"
RECURSIVE rstrip(_)
rstrip(s) ==
    IF s # <<>> /\ s[Len(s)] = "/" THEN rstrip(SubSeq(s, 1, Len(s) - 1)) ELSE s

\* index of the last "/" of s, 0 when there is none (str.rfind + 1)
RECURSIVE LastSep(_)
LastSep(s) ==
    IF s = <<>> THEN 0
    ELSE IF s[Len(s)] = "/" THEN Len(s)
    ELSE LastSep(SubSeq(s, 1, Len(s) - 1))

\* the whole destination instead of the part before its last '/'
rpartition0_whole(s) == s

\* dest.rpartition('/')[0]
rpartition0(s) == IF LastSep(s) = 0 THEN <<>> ELSE SubSeq(s, 1, LastSep(s) - 1)

\* '/'.join((a, b))
JoinSlash(a, b) == a \o <<"/">> \o b

(***************************************************************************)
(* The local file system seen by os.path.isfile / os.path.isdir, and the   *)
(* paths that push configurations are drawn from.                          *)
(***************************************************************************)
P_a   == <<"/", "a">>
P_ab  == <<"/", "a", "/", "b">>
P_ac  == <<"/", "a", "/", "c">>
P_af  == <<"/", "a", "/", "f">>
P_d   == <<"/", "d">>
P_ds  == <<"/", "d", "/">>
P_ab2 == <<"/", "a", "b">>
P_x   == <<"/", "x">>
P_rd  == <<"/", "r", "/", "d">>
P_rf  == <<"/", "r", "/", "f">>

LocalDirs  == {P_a, P_ab, P_ac, P_d, P_ab2}
LocalFiles == {P_af}

isdir(p)  == p \in LocalDirs
isfile(p) == p \in LocalFiles

(***************************************************************************)
(* Push configuration entries: a Python str (kind "str", val its           *)
(* characters) or a tuple (kind "tuple", val its elements).  len() and     *)
(* unpacking apply to both.                                                *)
(***************************************************************************)
Str(p) == [kind |-> "str", val |-> p]
Tup(t) == [kind |-> "tuple", val |-> t]
PyLen(e) == Len(e.val)
\* the elements that  for source, dest in ...  binds: an element of a str is
\* the one-character str
Elem(e, i) == IF e.kind = "str" THEN <<e.val[i]>> ELSE e.val[i]

\* _LocationPaths(local, remote)
LocationPaths(l, r) == [local |-> l, remote |-> r]

(***************************************************************************)
(* Commands and their execution.                                           *)
(***************************************************************************)
NoPath == <<>>
\* a path on the local host, and _remote_copy_path: user@host:path
LocalSide(path)        == [host |-> "local", path |-> path]
remote_copy_path(h, p) == [host |-> h, path |-> p]

\* what can happen to the subprocess of one _execute_cmd call: Popen raises
\* OSError, the subprocess exits with a return code, or it never exits
Exit(rc)  == [ev |-> "exit", rc |-> rc]
OsError   == [ev |-> "oserror", rc |-> -1]
Hang      == [ev |-> "hang", rc |-> -1]
Outcomes  == {Exit(0), Exit(1), OsError, Hang}

\* _execute_cmd without the test of the return code
execute_cmd_unchecked(cmd, label, check, o) ==
    [cmd |-> cmd, label |-> label, check |-> check, rc |-> o.rc,
     io |-> IF o.ev = "oserror" THEN <<>>
            ELSE IF o.ev = "hang" THEN <<"popen", "write">>
            ELSE <<"popen", "write", "wait">>,
     done |-> IF o.ev = "oserror" THEN "raised"
              ELSE IF o.ev = "hang" THEN "blocked"
              ELSE "returned",
     exc |-> IF o.ev = "oserror" THEN "OSError" ELSE "none"]

\* _execute_cmd that tests the return code whatever check is
execute_cmd_always_checked(cmd, label, check, o) ==
    [cmd |-> cmd, label |-> label, check |-> check, rc |-> o.rc,
     io |-> IF o.ev = "oserror" THEN <<>>
            ELSE IF o.ev = "hang" THEN <<"popen", "write">>
            ELSE <<"popen", "write", "wait">>,
     done |-> IF o.ev = "oserror" THEN "raised"
              ELSE IF o.ev = "hang" THEN "blocked"
              ELSE IF o.rc # 0 THEN "raised"
              ELSE "returned",
     exc |-> IF o.ev = "oserror" THEN "OSError"
             ELSE IF o.ev = "exit" /\ o.rc # 0 THEN "RuntimeError"
             ELSE "none"]

\* _execute_cmd: io lists what is done with the subprocess, in order
execute_cmd(cmd, label, check, o) ==
    [cmd |-> cmd, label |-> label, check |-> check, rc |-> o.rc,
     io |-> IF o.ev = "oserror" THEN <<>>
            ELSE IF o.ev = "hang" THEN <<"popen", "write">>
            ELSE <<"popen", "write", "wait">>,
     done |-> IF o.ev = "oserror" THEN "raised"
              ELSE IF o.ev = "hang" THEN "blocked"
              ELSE IF check /\ o.rc # 0 THEN "raised"
              ELSE "returned",
     exc |-> IF o.ev = "oserror" THEN "OSError"
             ELSE IF o.ev = "exit" /\ check /\ o.rc # 0 THEN "RuntimeError"
             ELSE "none"]

\* _mkdir_remote: cfg.remote_mkdir + [remote_dir] through ssh_cmd, checked
mkdir_remote(h, remote_dir, o) ==
    execute_cmd([op |-> "mkdir", src |-> LocalSide(NoPath),
                 dst |-> remote_copy_path(h, remote_dir), exclude |-> "none"],
                "remote mkdir", TRUE, o)

\* _transfer_data: copy_cmd(source, target, **copy_args), checked
transfer_data(source, target, exclude, o) ==
    execute_cmd([op |-> "copy", src |-> source, dst |-> target,
                 exclude |-> exclude],
                "transfer data", TRUE, o)

\* the link_cmd calls of _copy_workspace, through ssh_cmd, checked
link_remote(h, path, link, label, o) ==
    execute_cmd([op |-> "link", src |-> remote_copy_path(h, path),
                 dst |-> remote_copy_path(h, link), exclude |-> "none"],
                label, TRUE, o)

(***************************************************************************)
(* Path utilities of testplan.common.utils.path.                           *)
(***************************************************************************)
os_sep == "/"

\* pathutils.to_posix_path: the separators of the local OS become "/"
to_posix_path(p) == [i \in 1..Len(p) |-> IF p[i] = os_sep THEN "/" ELSE p[i]]

\* pathutils.is_subdir(child, parent)
is_subdir(child, parent) ==
    \/ child = parent
    \/ startswith(child, parent \o <<os_sep>>)

\* os.path.relpath(path, root) for a path under root
relpath(path, root) ==
    IF path = root THEN <<".">> ELSE SubSeq(path, Len(root) + 2, Len(path))

(***************************************************************************)
(* The push plan: _build_push_dests, _build_push_lists.                    *)
(***************************************************************************)
\* Python's None among paths
None == <<"None">>

\* all(isinstance(cfg, six.string_types) for cfg in push)
AllStrings(push) == \A i \in 1..Len(push) : push[i].kind = "str"

\* all(len(pair) == 2 for pair in push)
AllLenTwo(push) == \A i \in 1..Len(push) : PyLen(push[i]) = 2

\* _to_relative_push_dest without its is_subdir test
NotUnderRoot_unchecked(sources, root) == FALSE

\* _to_relative_push_dest raises for some source of the list comprehension
NotUnderRoot(sources, root) ==
    \E i \in 1..Len(sources) : ~is_subdir(sources[i], root)

\* _to_relative_push_dest joining the remote push dir with the whole local path
to_relative_push_dest_absolute(local_path, root, remote_push_dir) ==
    remote_push_dir \o to_posix_path(local_path)

\* _to_relative_push_dest for a source under the root
to_relative_push_dest(local_path, root, remote_push_dir) ==
    JoinSlash(remote_push_dir, to_posix_path(relpath(local_path, root)))

\* _build_push_dests for the sources of an all-strings push list; rel is
\* cfg.push_relative_dir (None when unset), rtp is _remote_testplan_path and
\* o is what happens to the remote mkdir of the push dir
build_push_dests(sources, rel, h, rtp, o) ==
    IF rel # None
    THEN LET dir == JoinSlash(rtp, <<"p">>)
             mk  == mkdir_remote(h, dir, o)
         IN  IF mk.done # "returned"
             THEN [log |-> <<mk>>, done |-> mk.done, exc |-> mk.exc,
                   why |-> "RemoteCommandFailed", push_dir |-> None,
                   attr |-> dir, dsts |-> <<>>]
             ELSE IF NotUnderRoot(sources, rel)
             THEN [log |-> <<mk>>, done |-> "raised", exc |-> "RuntimeError",
                   why |-> "PushNotUnderRoot", push_dir |-> dir,
                   attr |-> dir, dsts |-> <<>>]
             ELSE [log |-> <<mk>>, done |-> "returned", exc |-> "none",
                   why |-> "none", push_dir |-> dir, attr |-> dir,
                   dsts |-> [i \in 1..Len(sources) |->
                               to_relative_push_dest(sources[i], rel, dir)]]
    ELSE [log |-> <<>>, done |-> "returned", exc |-> "none", why |-> "none",
          push_dir |-> None, attr |-> None,
          dsts |-> [i \in 1..Len(sources) |-> to_posix_path(sources[i])]]

\* an insertion that does not compare the local paths
InsertByLocal_first(x, sorted) == <<x>> \o sorted

\* list.sort(key=lambda x: x.local): a stable sort
RECURSIVE InsertByLocal(_, _)
InsertByLocal(x, sorted) ==
    IF sorted = <<>> THEN <<x>>
    ELSE IF StrLess(x.local, Head(sorted).local) THEN <<x>> \o sorted
    ELSE <<Head(sorted)>> \o InsertByLocal(x, Tail(sorted))

\* the directories left in the order of the configuration, not sorted
SortByLocal_unsorted(seq) == seq

RECURSIVE SortByLocal(_)
SortByLocal(seq) ==
    IF seq = <<>> THEN <<>>
    ELSE InsertByLocal(seq[Len(seq)], SortByLocal(SubSeq(seq, 1, Len(seq) - 1)))

\* [x for x in seq if keep(x)]
RECURSIVE KeepIdx(_, _, _)
KeepIdx(seq, keep, i) ==
    IF i > Len(seq) THEN <<>>
    ELSE (IF i \in keep THEN <<seq[i]>> ELSE <<>>) \o KeepIdx(seq, keep, i + 1)

\* the directories returned as they were classified, nothing eliminated
dedup_dirs_keep_all(push_dirs) == push_dirs

\* "Eliminate push duplications"
dedup_dirs(push_dirs) ==
    IF Len(push_dirs) > 1
    THEN LET sorted == SortByLocal(push_dirs)
             dropped == {idx \in 1..(Len(sorted) - 1) :
                           startswith(sorted[idx + 1].local, sorted[idx].local)}
         IN  KeepIdx(sorted, (1..Len(sorted)) \ dropped, 1)
    ELSE push_dirs

\* the (source, dest) pairs that  for source, dest in push_locations  binds
push_locations(push, dsts) ==
    IF AllStrings(push)
    THEN [i \in 1..Len(push) |-> LocationPaths(push[i].val, dsts[i])]
    ELSE [i \in 1..Len(push) |-> LocationPaths(Elem(push[i], 1), Elem(push[i], 2))]

\* the separation of the push sources into files and directories
classify(locs) ==
    LET stripped == [i \in 1..Len(locs) |->
                       LocationPaths(rstrip(locs[i].local), locs[i].remote)]
    IN  [files |-> KeepIdx(stripped,
                           {i \in 1..Len(locs) : isfile(stripped[i].local)}, 1),
         dirs  |-> KeepIdx(stripped,
                           {i \in 1..Len(locs) : ~isfile(stripped[i].local)
                                                 /\ isdir(stripped[i].local)}, 1)]

\* _build_push_lists
build_push_lists(push, rel, h, rtp, o) ==
    LET dests == IF AllStrings(push)
                 THEN build_push_dests([i \in 1..Len(push) |-> push[i].val],
                                       rel, h, rtp, o)
                 ELSE [log |-> <<>>,
                       done |-> IF AllLenTwo(push) THEN "returned" ELSE "raised",
                       exc |-> IF AllLenTwo(push) THEN "none" ELSE "TypeError",
                       why |-> IF AllLenTwo(push) THEN "none" ELSE "BadPushConfig",
                       push_dir |-> None, attr |-> None, dsts |-> <<>>]
    IN  IF dests.done # "returned"
        THEN [log |-> dests.log, done |-> dests.done, exc |-> dests.exc,
              why |-> dests.why, push_dir |-> dests.push_dir,
              attr |-> dests.attr, files |-> <<>>, dirs |-> <<>>]
        ELSE LET c == classify(push_locations(push, dests.dsts))
             IN  [log |-> dests.log, done |-> "returned", exc |-> "none",
                  why |-> "none", push_dir |-> dests.push_dir,
                  attr |-> dests.attr, files |-> c.files, dirs |-> dedup_dirs(c.dirs)]

(***************************************************************************)
(* The state of one RemoteWorker and of the pool's control plane.          *)
(***************************************************************************)
VARIABLES
    cfg,                     \* the worker's configuration (self.cfg, os.environ, pwd())
    pc,                      \* where the worker's thread of control stands
    log,                     \* the commands executed and the superclass calls, in order
    should_transfer,         \* self._should_transfer_workspace
    remote_testplan_path,    \* self._remote_testplan_path
    remote_testplan_runpath, \* self._remote_testplan_runpath
    workspace_paths,         \* self._workspace_paths
    working_dirs,            \* self._working_dirs
    setup_metadata,          \* self.setup_metadata
    plan,                    \* push_files, push_dirs of _push_files
    idx,                     \* the loop index of _push_files_to_dst and of _pull_files
    exc,                     \* the exception that left the last handler
    attrs,                   \* self.remote_push_dir and self._remote_push_dir
    spawned,                 \* the remote subprocess was started
    responses,               \* the Metadata payloads sent to the worker
    child_cmd,               \* the command lines the subprocess was started with
    pool,                    \* the RemotePool: its cfg and its registry of workers
    local_files,             \* the local paths written by _fetch_results, by worker
    thr                      \* a call of a utility of thread.py, its thread and the clock

vars == <<cfg, pc, log, should_transfer, remote_testplan_path,
          remote_testplan_runpath, workspace_paths, working_dirs,
          setup_metadata, plan, idx, exc, attrs, spawned, responses,
          child_cmd, pool, local_files, thr>>

NoneList == <<None>>
NoExc    == [type |-> "none", why |-> "none"]

\* a log entry: the method that acted and the command it executed
NoExec ==
    [cmd |-> [op |-> "none", src |-> LocalSide(NoPath), dst |-> LocalSide(NoPath),
              exclude |-> "none"],
     label |-> "none", check |-> FALSE, rc |-> 0, io |-> <<>>,
     done |-> "returned", exc |-> "none"]
Entry(by, ex) == [by |-> by, ex |-> ex]
Event(by)     == [by |-> by, ex |-> NoExec]

\* where control goes after a command: on, or out of the handler with the
\* exception, or nowhere while the subprocess does not exit
\* a handler that goes on after a command that raised
After_ignoring_failure(e, next, failed) ==
    IF e.done = "blocked" THEN "blocked" ELSE next

After(e, next, failed) ==
    IF e.done = "returned" THEN next
    ELSE IF e.done = "raised" THEN failed
    ELSE "blocked"
Raised(e) ==
    IF e.done = "raised"
    THEN [type |-> e.exc,
          why |-> IF e.exc = "RuntimeError" THEN "RemoteCommandFailed" ELSE e.exc]
    ELSE NoExc

(***************************************************************************)
(* Configurations.                                                         *)
(***************************************************************************)
LocalWorkspace == <<"/", "w">>
RemoteWorkspaceOpt == <<"/", "x", "/", "w">>
CwdInside  == <<"/", "w", "/", "f">>
CwdOutside == <<"/", "x">>
LocalRunpath == <<"/", "r">>

\* push lists of the worker specification
PushChoices ==
    { <<>>,
      <<Str(P_a), Str(P_ab), Str(P_d)>>,
      <<Str(P_af), Str(P_ab)>>,
      <<Tup(<<P_d, P_rd>>), Tup(<<P_af, P_rf>>)>>,
      <<Str(P_a), Tup(<<P_d, P_rd>>)>>,
      <<Str(P_ab), Tup(<<P_d, P_rd>>)>> }

PullChoices == { <<>>, <<P_rd>>, <<P_rf, P_ds>>, <<P_rd, P_rf, P_ds>> }

Configs ==
    [index : {"h"},
     remote_workspace : {None, RemoteWorkspaceOpt},
     copy_workspace_check : BOOLEAN,
     deps_path : BOOLEAN,
     pwd : {CwdInside, CwdOutside},
     push : PushChoices,
     push_relative_dir : {None, P_a},
     pull : PullChoices]

\* cfg.hosts of the pool: a dict of host: number of its local workers
PoolHosts    == {"g", "h", "k"}
WorkerCounts == {1, 2}
PoolTypes    == {"thread", "process"}
HostMappings == UNION {[hs -> WorkerCounts] : hs \in SUBSET PoolHosts}

\* the orders in which  for host, workers in self.cfg.hosts.items()  can
\* visit the keys of a dict
ItemOrders(hosts) ==
    {order \in [1..Cardinality(DOMAIN hosts) -> DOMAIN hosts] :
        \A i, j \in DOMAIN order : order[i] = order[j] => i = j}

\* one iteration of _add_workers that registers the worker under the pool
\* type instead of the host
add_worker_by_pool_type(host, workers, pool_type) ==
    [uid |-> pool_type,
     worker |-> [index |-> host, workers |-> workers, pool_type |-> pool_type,
                 parent |-> "RemotePool", cfg_parent |-> "RemotePool.cfg",
                 state |-> "idle", remote_testplan_runpath |-> None,
                 spawned |-> FALSE]]

\* one iteration of _add_workers: the worker it creates (with the fields that
\* RemoteWorker.__init__ and the lifecycle give it) and the uid it is
\* registered under
add_worker(host, workers, pool_type) ==
    [uid |-> host,
     worker |-> [index |-> host, workers |-> workers, pool_type |-> pool_type,
                 parent |-> "RemotePool", cfg_parent |-> "RemotePool.cfg",
                 state |-> "idle", remote_testplan_runpath |-> None,
                 spawned |-> FALSE]]

\* the registry self._workers after the loop of _add_workers
add_workers(hosts, pool_type, order) ==
    [i \in 1..Len(order) |-> add_worker(order[i], hosts[order[i]], pool_type)]

\* the pool that the worker of Spec belongs to: one host, workers added
OneWorkerPool ==
    [hosts |-> [h \in {"h"} |-> 1], pool_type |-> "thread", phase |-> "added",
     workers |-> add_workers([h \in {"h"} |-> 1], "thread", <<"h">>)]

\* WorkerSetupMetadata.__init__
WorkerSetupMetadata ==
    [push_dirs |-> NoneList, push_files |-> NoneList, push_dir |-> None,
     setup_script |-> "None", env |-> "None", workspace_paths |-> "None",
     workspace_pushed |-> FALSE]

\* RemoteWorker.__init__
\* no utility of thread.py has been called
NoCall ==
    [fn |-> "none", join |-> FALSE, has_break |-> FALSE, has_timeout |-> FALSE,
     timeout |-> 0, alive |-> FALSE, now |-> 0, start_time |-> 0, end_time |-> 0,
     pc |-> "none", seen_alive |-> FALSE, broke |-> "unevaluated",
     elapsed |-> 0, result |-> "none"]

InitWorker ==
    /\ pc = "idle"
    /\ log = <<>>
    /\ should_transfer = TRUE
    /\ remote_testplan_path = None
    /\ remote_testplan_runpath = None
    /\ workspace_paths = LocationPaths(None, None)
    /\ working_dirs = LocationPaths(None, None)
    /\ setup_metadata = WorkerSetupMetadata
    /\ plan = [files |-> <<>>, dirs |-> <<>>]
    /\ idx = 0
    /\ exc = NoExc
    /\ attrs = [remote_push_dir |-> None, u_remote_push_dir |-> <<"unset">>]
    /\ spawned = FALSE
    /\ responses = <<>>
    /\ child_cmd = <<>>

Init ==
    /\ cfg \in Configs
    /\ InitWorker
    /\ pool = OneWorkerPool
    /\ local_files = {}
    /\ thr = NoCall

(***************************************************************************)
(* starting: _prepare_remote, step by step, then the superclass.           *)
(***************************************************************************)
\* _define_remote_dirs; "T" abbreviates
\* var/tmp/<user>/testplan/remote_workspaces/<slug of the plan name>
define_remote_testplan_path == <<"/", "T">>
\* a run directory that does not end with the worker's index
define_remote_testplan_runpath_shared(h) ==
    define_remote_testplan_path \o <<"/", "r">>

define_remote_testplan_runpath(h) ==
    define_remote_testplan_path \o <<"/", "r", "/", h>>

\* the calls in another order: the dependencies module before the child script
prepare_remote_swapped ==
    <<"create_dirs", "deps", "child", "workspace", "working_dir", "push", "record">>

\* the calls of _prepare_remote after the copy workspace check, in order
prepare_remote ==
    <<"create_dirs", "child", "deps", "workspace", "working_dir", "push", "record">>

StepAfter(step) ==
    prepare_remote[(CHOOSE i \in 1..Len(prepare_remote) : prepare_remote[i] = step) + 1]

\* the copy_workspace_check command, run with check=False
copy_workspace_check(h, ws, o) ==
    execute_cmd([op |-> "check", src |-> LocalSide(NoPath),
                 dst |-> remote_copy_path(h, ws), exclude |-> "none"],
                "copy workspace check", FALSE, o)

\* _prepare_remote up to _define_remote_dirs
PrepareCheck ==
    /\ pc = "idle"
    /\ workspace_paths' = [workspace_paths EXCEPT !.local = LocalWorkspace]
    /\ IF cfg.copy_workspace_check
       THEN \E o \in Outcomes :
              LET e == copy_workspace_check(cfg.index, LocalWorkspace, o)
              IN  /\ log' = Append(log, Entry("copy_workspace_check", e))
                  /\ pc' = After(e, prepare_remote[1], "failed")
                  /\ exc' = Raised(e)
                  /\ IF e.done = "returned"
                     THEN /\ should_transfer' = (e.rc # 0)
                          /\ remote_testplan_path' = define_remote_testplan_path
                          /\ remote_testplan_runpath' =
                                 define_remote_testplan_runpath(cfg.index)
                     ELSE UNCHANGED <<should_transfer, remote_testplan_path,
                                      remote_testplan_runpath>>
       ELSE /\ pc' = prepare_remote[1]
            /\ remote_testplan_path' = define_remote_testplan_path
            /\ remote_testplan_runpath' = define_remote_testplan_runpath(cfg.index)
            /\ UNCHANGED <<log, exc, should_transfer>>
    /\ UNCHANGED <<cfg, child_cmd, thr, pool, local_files, working_dirs, setup_metadata, plan, idx, attrs, spawned, responses>>

\* _create_remote_dirs
CreateRemoteDirs ==
    /\ pc = "create_dirs"
    /\ \E o \in Outcomes :
         LET e == execute_cmd([op |-> "mkdir", src |-> LocalSide(NoPath),
                               dst |-> remote_copy_path(cfg.index,
                                                        remote_testplan_path),
                               exclude |-> "none"],
                              "create remote dirs", TRUE, o)
         IN  /\ log' = Append(log, Entry("_create_remote_dirs", e))
             /\ pc' = After(e, StepAfter("create_dirs"), "failed")
             /\ exc' = Raised(e)
    /\ UNCHANGED <<cfg, child_cmd, thr, pool, local_files, should_transfer, remote_testplan_path,
                   remote_testplan_runpath, workspace_paths, working_dirs,
                   setup_metadata, plan, idx, attrs, spawned, responses>>

\* _copy_child_script
ChildLocal == <<"/", "c">>
CopyChildScript ==
    /\ pc = "child"
    /\ \E o \in Outcomes :
         LET e == transfer_data(LocalSide(ChildLocal),
                                remote_copy_path(cfg.index,
                                    remote_testplan_path \o <<"/", "c">>),
                                "none", o)
         IN  /\ log' = Append(log, Entry("_copy_child_script", e))
             /\ pc' = After(e, StepAfter("child"), "failed")
             /\ exc' = Raised(e)
    /\ UNCHANGED <<cfg, child_cmd, thr, pool, local_files, should_transfer, remote_testplan_path,
                   remote_testplan_runpath, workspace_paths, working_dirs,
                   setup_metadata, plan, idx, attrs, spawned, responses>>

\* _copy_dependencies_module
DepsLocal == <<"/", "d", "/", "p">>
CopyDependenciesModule ==
    /\ pc = "deps"
    /\ IF cfg.deps_path
       THEN \E o \in Outcomes :
              LET e == transfer_data(LocalSide(DepsLocal),
                                     remote_copy_path(cfg.index,
                                         remote_testplan_path \o <<"/", "p">>),
                                     "none", o)
              IN  /\ log' = Append(log, Entry("_copy_dependencies_module", e))
                  /\ pc' = After(e, StepAfter("deps"), "failed")
                  /\ exc' = Raised(e)
       ELSE /\ pc' = StepAfter("deps")
            /\ UNCHANGED <<log, exc>>
    /\ UNCHANGED <<cfg, child_cmd, thr, pool, local_files, should_transfer, remote_testplan_path,
                   remote_testplan_runpath, workspace_paths, working_dirs,
                   setup_metadata, plan, idx, attrs, spawned, responses>>

\* os.path.basename
basename(p) == SubSeq(p, LastSep(p) + 1, Len(p))

\* _copy_workspace with the transfer branch tested before remote_workspace
copy_workspace_cmd_transfer_first(h, rw, transfer, ws, rtp, o) ==
    IF transfer = TRUE
    THEN Entry("_copy_workspace",
               transfer_data(LocalSide(ws.local), remote_copy_path(h, rtp),
                             "workspace_exclude", o))
    ELSE IF rw # None
    THEN Entry("_copy_workspace",
               link_remote(h, rw, ws.remote, "linking to remote workspace (1).", o))
    ELSE Entry("_copy_workspace",
               link_remote(h, ws.local, ws.remote,
                           "linking to remote workspace (2).", o))

\* the command _copy_workspace executes
copy_workspace_cmd(h, rw, transfer, ws, rtp, o) ==
    IF rw # None
    THEN Entry("_copy_workspace",
               link_remote(h, rw, ws.remote, "linking to remote workspace (1).", o))
    ELSE IF transfer = TRUE
    THEN Entry("_copy_workspace",
               transfer_data(LocalSide(ws.local), remote_copy_path(h, rtp),
                             "workspace_exclude", o))
    ELSE Entry("_copy_workspace",
               link_remote(h, ws.local, ws.remote,
                           "linking to remote workspace (2).", o))

\* workspace_pushed set on every path of _copy_workspace
copy_workspace_pushed_any_path(rw, transfer, e) == e.done = "returned"

\* whether _copy_workspace sets workspace_pushed
copy_workspace_pushed(rw, transfer, e) ==
    rw = None /\ transfer = TRUE /\ e.done = "returned"

\* _copy_workspace
CopyWorkspace ==
    /\ pc = "workspace"
    /\ LET ws == [workspace_paths EXCEPT
                     !.remote = JoinSlash(remote_testplan_path,
                                          basename(workspace_paths.local))]
       IN  /\ workspace_paths' = ws
           /\ \E o \in Outcomes :
                LET en == copy_workspace_cmd(cfg.index, cfg.remote_workspace,
                                             should_transfer, ws,
                                             remote_testplan_path, o)
                IN  /\ log' = Append(log, en)
                    /\ pc' = After(en.ex, StepAfter("workspace"), "failed")
                    /\ exc' = Raised(en.ex)
                    /\ setup_metadata' =
                         IF copy_workspace_pushed(cfg.remote_workspace,
                                                  should_transfer, en.ex)
                         THEN [setup_metadata EXCEPT !.workspace_pushed = TRUE]
                         ELSE setup_metadata
    /\ UNCHANGED <<cfg, child_cmd, thr, pool, local_files, should_transfer, remote_testplan_path,
                   remote_testplan_runpath, working_dirs, plan, idx, attrs,
                   spawned, responses>>

\* _remote_working_dir without the relative path of the working directory
remote_working_dir_workspace(wd, ws) == to_posix_path(ws.remote)

\* the _remote_working_dir property
remote_working_dir(wd, ws) ==
    to_posix_path(JoinSlash(ws.remote, relpath(wd, ws.local)))

\* _prepare_remote: the working directories
RemoteWorkingDir ==
    /\ pc = "working_dir"
    /\ IF is_subdir(cfg.pwd, workspace_paths.local)
       THEN /\ working_dirs' =
                 LocationPaths(cfg.pwd, remote_working_dir(cfg.pwd, workspace_paths))
            /\ pc' = StepAfter("working_dir")
            /\ exc' = NoExc
       ELSE /\ working_dirs' = LocationPaths(cfg.pwd, None)
            /\ pc' = "failed"
            /\ exc' = [type |-> "RuntimeError", why |-> "WorkingDirOutsideWorkspace"]
    /\ UNCHANGED <<cfg, child_cmd, thr, pool, local_files, log, should_transfer, remote_testplan_path,
                   remote_testplan_runpath, workspace_paths, setup_metadata,
                   plan, idx, attrs, spawned, responses>>

\* the entries _push_files_to_dst iterates: itertools.chain(push_files, push_dirs)
PushTodo == plan.files \o plan.dirs

Remotes(locs) == [i \in 1..Len(locs) |-> locs[i].remote]

\* _push_files up to the call of _push_files_to_dst
PushFiles ==
    /\ pc = "push"
    /\ IF cfg.push = <<>>
       THEN /\ pc' = StepAfter("push")
            /\ UNCHANGED <<log, exc, setup_metadata, plan, idx, attrs>>
       ELSE \E o \in Outcomes :
              LET r == build_push_lists(cfg.push, cfg.push_relative_dir, cfg.index,
                                        remote_testplan_path, o)
              IN  /\ log' = log \o [i \in 1..Len(r.log) |->
                                      Entry("_build_push_dests", r.log[i])]
                  /\ attrs' = IF r.attr # None
                              THEN [attrs EXCEPT !.u_remote_push_dir = r.attr]
                              ELSE attrs
                  /\ IF r.done = "returned"
                     THEN /\ setup_metadata' =
                               [setup_metadata EXCEPT
                                  !.push_dir = r.push_dir,
                                  !.push_files = Remotes(r.files),
                                  !.push_dirs = Remotes(r.dirs)]
                          /\ plan' = [files |-> r.files, dirs |-> r.dirs]
                          /\ idx' = 1
                          /\ pc' = IF r.files \o r.dirs = <<>> THEN StepAfter("push")
                                   ELSE "push_mkdir"
                          /\ exc' = NoExc
                     ELSE /\ setup_metadata' =
                               [setup_metadata EXCEPT !.push_dir = r.push_dir]
                          /\ pc' = IF r.done = "raised" THEN "failed" ELSE "blocked"
                          /\ exc' = IF r.done = "raised"
                                    THEN [type |-> r.exc, why |-> r.why]
                                    ELSE NoExc
                          /\ UNCHANGED <<plan, idx>>
    /\ UNCHANGED <<cfg, child_cmd, thr, pool, local_files, should_transfer, remote_testplan_path,
                   remote_testplan_runpath, workspace_paths, working_dirs,
                   spawned, responses>>

\* _push_files_to_dst: the remote mkdir of one entry
PushMkdir ==
    /\ pc = "push_mkdir"
    /\ \E o \in Outcomes :
         LET e == mkdir_remote(cfg.index, rpartition0(PushTodo[idx].remote), o)
         IN  /\ log' = Append(log, Entry("_push_files_to_dst.mkdir", e))
             /\ pc' = After(e, "push_transfer", "failed")
             /\ exc' = Raised(e)
    /\ UNCHANGED <<cfg, child_cmd, thr, pool, local_files, should_transfer, remote_testplan_path,
                   remote_testplan_runpath, workspace_paths, working_dirs,
                   setup_metadata, plan, idx, attrs, spawned, responses>>

\* _push_files_to_dst: the transfer of one entry
PushTransfer ==
    /\ pc = "push_transfer"
    /\ \E o \in Outcomes :
         LET e == transfer_data(LocalSide(PushTodo[idx].local),
                                remote_copy_path(cfg.index, PushTodo[idx].remote),
                                "push_exclude", o)
         IN  /\ log' = Append(log, Entry("_push_files_to_dst.transfer", e))
             /\ pc' = After(e, IF idx < Len(PushTodo) THEN "push_mkdir"
                               ELSE StepAfter("push"), "failed")
             /\ exc' = Raised(e)
             /\ idx' = IF e.done = "returned" THEN idx + 1 ELSE idx
    /\ UNCHANGED <<cfg, child_cmd, thr, pool, local_files, should_transfer, remote_testplan_path,
                   remote_testplan_runpath, workspace_paths, working_dirs,
                   setup_metadata, plan, attrs, spawned, responses>>

\* the last three assignments of _prepare_remote
RecordMetadata ==
    /\ pc = "record"
    /\ setup_metadata' = [setup_metadata EXCEPT
                            !.setup_script = "cfg.setup_script",
                            !.env = "cfg.env",
                            !.workspace_paths = "self._workspace_paths"]
    /\ pc' = "prepared"
    /\ UNCHANGED <<cfg, child_cmd, thr, pool, local_files, log, should_transfer, remote_testplan_path,
                   remote_testplan_runpath, workspace_paths, working_dirs,
                   plan, idx, exc, attrs, spawned, responses>>

\* _add_testplan_deps_import_path: the tokens appended for flag; deps_path
\* is whether os.environ has TESTPLAN_DEPENDENCIES_PATH
add_testplan_deps_import_path(deps_path, flag) ==
    IF deps_path THEN <<flag, "TESTPLAN_DEPENDENCIES_PATH">> ELSE <<>>

\* _proc_cmd: the arguments of the child that depend on the worker's state
\* (--index, --wd, --runpath) and the optional --testplan-deps pair
proc_cmd(h, wd, runpath, deps_path, transfer) ==
    [index |-> h, wd |-> wd, runpath |-> runpath,
     deps |-> IF ~transfer
              THEN add_testplan_deps_import_path(deps_path, "--testplan-deps")
              ELSE <<>>]

\* starting: super(RemoteWorker, self).starting() spawns the subprocess
\* with the command line of _proc_cmd
SuperStarting ==
    /\ pc = "prepared"
    /\ log' = Append(log, Event("super.starting"))
    /\ spawned' = TRUE
    /\ child_cmd' = Append(child_cmd,
                           proc_cmd(cfg.index, working_dirs.remote,
                                    remote_testplan_runpath, cfg.deps_path,
                                    should_transfer))
    /\ pc' = "running"
    /\ UNCHANGED <<cfg, thr, pool, local_files, should_transfer, remote_testplan_path,
                   remote_testplan_runpath, workspace_paths, working_dirs,
                   setup_metadata, plan, idx, exc, attrs, responses>>

(***************************************************************************)
(* stopping and aborting.                                                  *)
(***************************************************************************)
\* _fetch_results with a copy command whose return code is not tested
fetch_results_unchecked(h, runpath, o) ==
    execute_cmd([op |-> "copy", src |-> remote_copy_path(h, runpath),
                 dst |-> LocalSide(LocalRunpath), exclude |-> "none"],
                "transfer data", FALSE, o)

\* _fetch_results
fetch_results(h, runpath, o) ==
    transfer_data(remote_copy_path(h, runpath), LocalSide(LocalRunpath), "none", o)

\* what the copy command of _fetch_results writes on the local host: the
\* remote directory, when it exists and the command was started, is copied
\* into the target directory under its own name
copy_writes(e, source_exists) ==
    IF e.cmd.op = "copy" /\ source_exists /\ e.io # <<>>
    THEN {e.cmd.dst.path \o <<"/">> \o basename(e.cmd.src.path)}
    ELSE {}

\* the local paths written by the _fetch_results of worker h
fetch_writes(h, e, source_exists) ==
    {[path |-> p, by |-> h] : p \in copy_writes(e, source_exists)}

\* os.path.dirname
dirname(p) ==
    LET head == SubSeq(p, 1, LastSep(p))
    IN  IF rstrip(head) = <<>> THEN head ELSE rstrip(head)

\* stopping without its call of _pull_files
stop_after_fetch_no_pull(pull) == "stop_super"

\* stopping: where control goes after _fetch_results:  if self.cfg.pull
stop_after_fetch(pull) == IF pull # <<>> THEN "pull" ELSE "stop_super"

\* stopping: _fetch_results
StopFetch ==
    /\ pc = "running"
    /\ \E o \in Outcomes :
         LET e == fetch_results(cfg.index, remote_testplan_runpath, o)
         IN  /\ log' = Append(log, Entry("stopping._fetch_results", e))
             /\ pc' = After(e, stop_after_fetch(cfg.pull), "stop_failed")
             /\ exc' = Raised(e)
             /\ local_files' = local_files \cup fetch_writes(cfg.index, e, spawned)
    /\ idx' = 1
    /\ UNCHANGED <<cfg, child_cmd, thr, pool, should_transfer, remote_testplan_path,
                   remote_testplan_runpath, workspace_paths, working_dirs,
                   setup_metadata, plan, attrs, spawned, responses>>

\* what _pull_files does with one entry: makedirs, which may fail, and then
\* the transfer
pull_entry(h, item, makedirs_ok, o) ==
    LET entry == rstrip(item)
    IN  IF makedirs_ok
        THEN Entry("_pull_files.transfer",
                   transfer_data(remote_copy_path(h, entry),
                                 LocalSide(dirname(entry)), "pull_exclude", o))
        ELSE Event("_pull_files.makedirs_error")

\* stopping: one iteration of _pull_files
PullEntry ==
    /\ pc = "pull"
    /\ \E makedirs_ok \in BOOLEAN, o \in Outcomes :
         LET en == pull_entry(cfg.index, cfg.pull[idx], makedirs_ok, o)
         IN  /\ log' = Append(log, en)
             /\ pc' = After(en.ex, IF idx < Len(cfg.pull) THEN "pull"
                                   ELSE "stop_super", "stop_failed")
             /\ exc' = Raised(en.ex)
             /\ idx' = IF en.ex.done = "returned" THEN idx + 1 ELSE idx
    /\ UNCHANGED <<cfg, child_cmd, thr, pool, local_files, should_transfer, remote_testplan_path,
                   remote_testplan_runpath, workspace_paths, working_dirs,
                   setup_metadata, plan, attrs, spawned, responses>>

\* stopping: super(RemoteWorker, self).stopping()
SuperStopping ==
    /\ pc = "stop_super"
    /\ log' = Append(log, Event("super.stopping"))
    /\ pc' = "stopped"
    /\ UNCHANGED <<cfg, child_cmd, thr, pool, local_files, should_transfer, remote_testplan_path,
                   remote_testplan_runpath, workspace_paths, working_dirs,
                   setup_metadata, plan, idx, exc, attrs, spawned, responses>>

\* an abort that is only accepted once the worker has been started
Abortable_running_only == {"running", "stop_failed"}

\* the states in which the worker is in no handler and can be aborted
Abortable == {"idle", "failed", "running", "stop_failed"}

\* aborting without the try/except around _fetch_results
abort_after_fetch_unguarded(e) == After(e, "abort_super", "failed")

\* where aborting goes after its guarded _fetch_results
abort_after_fetch(e) == IF e.done = "blocked" THEN "blocked" ELSE "abort_super"

\* aborting: try: _fetch_results() except Exception: log
AbortFetch ==
    /\ pc \in Abortable
    /\ \E o \in Outcomes :
         LET e == fetch_results(cfg.index, remote_testplan_runpath, o)
         IN  /\ log' = IF e.done = "raised"
                       THEN log \o <<Entry("aborting._fetch_results", e),
                                     Event("aborting.logged_error")>>
                       ELSE Append(log, Entry("aborting._fetch_results", e))
             /\ pc' = abort_after_fetch(e)
             /\ local_files' = local_files \cup fetch_writes(cfg.index, e, spawned)
    /\ exc' = NoExc
    /\ UNCHANGED <<cfg, child_cmd, thr, pool, should_transfer, remote_testplan_path,
                   remote_testplan_runpath, workspace_paths, working_dirs,
                   setup_metadata, plan, idx, attrs, spawned, responses>>

\* aborting: super(RemoteWorker, self).aborting()
SuperAborting ==
    /\ pc = "abort_super"
    /\ log' = Append(log, Event("super.aborting"))
    /\ pc' = "aborted"
    /\ UNCHANGED <<cfg, child_cmd, thr, pool, local_files, should_transfer, remote_testplan_path,
                   remote_testplan_runpath, workspace_paths, working_dirs,
                   setup_metadata, plan, idx, exc, attrs, spawned, responses>>

(***************************************************************************)
(* RemotePool: the MetadataPull handler.                                   *)
(***************************************************************************)
\* the content of worker.setup_metadata as it is serialised into a message:
\* workspace_paths is a reference to the worker's _workspace_paths
metadata_payload(md, ws) ==
    [md EXCEPT !.workspace_paths =
                   IF md.workspace_paths = "None" THEN <<>>
                   ELSE <<ws.local, ws.remote>>]

\* a response that carries a new WorkerSetupMetadata instead of the worker's
worker_setup_metadata_fresh(md, ws) ==
    [msg |-> "Metadata", data |-> metadata_payload(WorkerSetupMetadata, ws)]

\* what _worker_setup_metadata responds with
worker_setup_metadata(md, ws) ==
    [msg |-> "Metadata", data |-> metadata_payload(md, ws)]

\* RemotePool._worker_setup_metadata, for a request of the spawned subprocess
\* (the requests come over the connection the remote child opens)
MetadataPull ==
    /\ spawned
    /\ Len(responses) < MaxPulls
    /\ responses' = Append(responses,
                           worker_setup_metadata(setup_metadata, workspace_paths))
    /\ UNCHANGED <<cfg, child_cmd, thr, pool, local_files, pc, log, should_transfer, remote_testplan_path,
                   remote_testplan_runpath, workspace_paths, working_dirs,
                   setup_metadata, plan, idx, exc, attrs, spawned>>

Next ==
    \/ PrepareCheck
    \/ CreateRemoteDirs
    \/ CopyChildScript
    \/ CopyDependenciesModule
    \/ CopyWorkspace
    \/ RemoteWorkingDir
    \/ PushFiles
    \/ PushMkdir
    \/ PushTransfer
    \/ RecordMetadata
    \/ SuperStarting
    \/ StopFetch
    \/ PullEntry
    \/ SuperStopping
    \/ AbortFetch
    \/ SuperAborting
    \/ MetadataPull

Spec == Init /\ [][Next]_vars

\* the worker's thread runs on: once aborting has come back from
\* _fetch_results, it goes on to the call of the superclass
SpecFair == Spec /\ WF_vars(SuperAborting)

(***************************************************************************)
(* The pool and its workers: _add_workers, and then every worker of the    *)
(* registry started, stopped and aborted in any interleaving.  A worker's  *)
(* staging is summarised by how starting ends.                             *)
(***************************************************************************)
PoolWorkerVars ==
    <<cfg, pc, log, should_transfer, remote_testplan_path,
      remote_testplan_runpath, workspace_paths, working_dirs, setup_metadata,
      plan, idx, exc, attrs, spawned, responses, child_cmd, thr>>

InitPool ==
    /\ cfg = [index |-> "h", remote_workspace |-> None,
              copy_workspace_check |-> TRUE, deps_path |-> FALSE,
              pwd |-> CwdInside, push |-> <<>>, push_relative_dir |-> None,
              pull |-> <<>>]
    /\ InitWorker
    /\ pool \in [hosts : HostMappings, pool_type : PoolTypes,
                  phase : {"configured"}, workers : {<<>>}]
    /\ local_files = {}
    /\ thr = NoCall

\* RemotePool._add_workers
PoolAddWorkers ==
    /\ pool.phase = "configured"
    /\ \E order \in ItemOrders(pool.hosts) :
         pool' = [pool EXCEPT !.phase = "added",
                              !.workers = add_workers(pool.hosts, pool.pool_type,
                                                      order)]
    /\ UNCHANGED local_files
    /\ UNCHANGED PoolWorkerVars

\* how starting ends: the copy workspace check raised before
\* _define_remote_dirs, a later staging command raised, or the child process
\* was started
StartingEnds == {"check_raised", "staging_raised", "started"}

\* starting of the i-th worker of the registry
PoolWorkerStarting(i) ==
    /\ pool.phase = "added"
    /\ pool.workers[i].worker.state = "idle"
    /\ \E end \in StartingEnds :
         pool' = [pool EXCEPT
           !.workers[i].worker.state =
               IF end = "started" THEN "running" ELSE "failed",
           !.workers[i].worker.remote_testplan_runpath =
               IF end = "check_raised" THEN None
               ELSE define_remote_testplan_runpath(pool.workers[i].worker.index),
           !.workers[i].worker.spawned = (end = "started")]
    /\ UNCHANGED local_files
    /\ UNCHANGED PoolWorkerVars

\* stopping of the i-th worker of the registry (the pool's workers have no
\* pull list)
PoolWorkerStopping(i) ==
    /\ pool.phase = "added"
    /\ pool.workers[i].worker.state = "running"
    /\ \E o \in Outcomes :
         LET w == pool.workers[i].worker
             e == fetch_results(w.index, w.remote_testplan_runpath, o)
         IN  /\ local_files' = local_files \cup fetch_writes(w.index, e, w.spawned)
             /\ pool' = [pool EXCEPT !.workers[i].worker.state =
                                        After(e, "stopped", "stop_failed")]
    /\ UNCHANGED PoolWorkerVars

\* aborting of the i-th worker of the registry
PoolWorkerAborting(i) ==
    /\ pool.phase = "added"
    /\ pool.workers[i].worker.state \in Abortable
    /\ \E o \in Outcomes :
         LET w == pool.workers[i].worker
             e == fetch_results(w.index, w.remote_testplan_runpath, o)
         IN  /\ local_files' = local_files \cup fetch_writes(w.index, e, w.spawned)
             /\ pool' = [pool EXCEPT !.workers[i].worker.state =
                                        IF abort_after_fetch(e) = "abort_super"
                                        THEN "aborted" ELSE "blocked"]
    /\ UNCHANGED PoolWorkerVars

NextPool ==
    \/ PoolAddWorkers
    \/ \E i \in DOMAIN pool.workers : PoolWorkerStarting(i)
    \/ \E i \in DOMAIN pool.workers : PoolWorkerStopping(i)
    \/ \E i \in DOMAIN pool.workers : PoolWorkerAborting(i)

SpecPool == InitPool /\ [][NextPool]_vars

(***************************************************************************)
(* The push plan on its own: every push list of up to MaxPush entries.     *)
(***************************************************************************)
PushEntries ==
    { Str(P_a), Str(P_ab), Str(P_ac), Str(P_d), Str(P_ab2), Str(P_af),
      Str(P_x), Str(P_ds),
      Tup(<<P_d, P_rd>>), Tup(<<P_af, P_rf>>), Tup(<<P_d>>),
      Tup(<<P_d, P_rd, P_x>>) }

PushLists == UNION { [1..n -> PushEntries] : n \in 0..MaxPush }

InitPush ==
    /\ cfg \in [index : {"h"}, remote_workspace : {None},
                copy_workspace_check : {FALSE}, deps_path : {FALSE},
                pwd : {CwdInside}, push : PushLists,
                push_relative_dir : {None, P_a}, pull : {<<>>}]
    /\ InitWorker
    /\ pool = OneWorkerPool
    /\ local_files = {}
    /\ thr = NoCall

\* _build_push_lists applied to the configured push list
BuildPushLists ==
    /\ pc = "idle"
    /\ \E o \in {Exit(0), Exit(1)} :
         plan' = build_push_lists(cfg.push, cfg.push_relative_dir, cfg.index,
                                  define_remote_testplan_path, o)
    /\ pc' = "planned"
    /\ UNCHANGED <<cfg, child_cmd, thr, pool, local_files, log, should_transfer, remote_testplan_path,
                   remote_testplan_runpath, workspace_paths, working_dirs,
                   setup_metadata, idx, exc, attrs, spawned, responses>>

NextPush == BuildPushLists

SpecPush == InitPush /\ [][NextPush]_vars

(***************************************************************************)
(* The utilities of thread.py: one call of execute_as_thread or of         *)
(* interruptible_join, statement by statement, while the clock advances    *)
(* and the target thread may finish at any moment.                         *)
(***************************************************************************)
ThreadOtherVars ==
    <<cfg, pc, log, should_transfer, remote_testplan_path,
      remote_testplan_runpath, workspace_paths, working_dirs, setup_metadata,
      plan, idx, exc, attrs, spawned, responses, child_cmd, pool, local_files>>

\* the calls: the parameters join, break_join, timeout of execute_as_thread
\* (whose thread is created by the call), and the thread and the timeout
\* of interruptible_join; a timeout that is None has has_timeout FALSE
ThreadCalls ==
    {[NoCall EXCEPT !.fn = "execute_as_thread", !.join = j, !.has_break = b,
                    !.has_timeout = ht, !.timeout = t, !.pc = "called"] :
        j \in BOOLEAN, b \in BOOLEAN, ht \in BOOLEAN, t \in 0..MaxTimeout}
    \cup
    {[NoCall EXCEPT !.fn = "interruptible_join", !.alive = a,
                    !.has_timeout = ht, !.timeout = t, !.pc = "called"] :
        a \in BOOLEAN, ht \in BOOLEAN, t \in 0..MaxTimeout}

InitThread ==
    /\ cfg = [index |-> "h", remote_workspace |-> None,
              copy_workspace_check |-> TRUE, deps_path |-> FALSE,
              pwd |-> CwdInside, push |-> <<>>, push_relative_dir |-> None,
              pull |-> <<>>]
    /\ InitWorker
    /\ pool = OneWorkerPool
    /\ local_files = {}
    /\ thr \in {c \in ThreadCalls : c.has_timeout \/ c.timeout = 0}

\* time.time() advances
Tick ==
    /\ thr.pc \notin {"none", "done"}
    /\ thr.now < MaxClock
    /\ thr' = [thr EXCEPT !.now = thr.now + 1]
    /\ UNCHANGED ThreadOtherVars

\* the target of the thread returns
ThreadFinishes ==
    /\ thr.alive
    /\ thr.pc # "done"
    /\ thr' = [thr EXCEPT !.alive = FALSE]
    /\ UNCHANGED ThreadOtherVars

\* execute_as_thread: thr.start(), and start_time when join is True
ExecStart ==
    /\ thr.fn = "execute_as_thread" /\ thr.pc = "called"
    /\ thr' = IF thr.join
              THEN [thr EXCEPT !.alive = TRUE, !.start_time = thr.now,
                               !.pc = "is_alive"]
              ELSE [thr EXCEPT !.alive = TRUE, !.pc = "done",
                               !.result = "returned"]
    /\ UNCHANGED ThreadOtherVars

\* execute_as_thread: if not thr.is_alive(): return
ExecIsAlive ==
    /\ thr.fn = "execute_as_thread" /\ thr.pc = "is_alive"
    /\ thr' = IF ~thr.alive
              THEN [thr EXCEPT !.pc = "done", !.result = "returned",
                               !.seen_alive = FALSE]
              ELSE [thr EXCEPT !.pc = "break_join", !.seen_alive = TRUE]
    /\ UNCHANGED ThreadOtherVars

\* execute_as_thread: if break_join is not None and break_join(): break
ExecBreakJoin ==
    /\ thr.fn = "execute_as_thread" /\ thr.pc = "break_join"
    /\ IF thr.has_break
       THEN \E b \in BOOLEAN :
              thr' = IF b
                     THEN [thr EXCEPT !.broke = "true", !.pc = "done",
                                      !.result = "returned"]
                     ELSE [thr EXCEPT !.broke = "false", !.pc = "timeout"]
       ELSE thr' = [thr EXCEPT !.pc = "timeout"]
    /\ UNCHANGED ThreadOtherVars

\* the timeout test of execute_as_thread with >= for >
timed_out_at_limit(has_timeout, timeout, elapsed) ==
    has_timeout /\ timeout # 0 /\ elapsed >= timeout

\* execute_as_thread: timeout and time.time() - start_time > timeout
timed_out(has_timeout, timeout, elapsed) ==
    has_timeout /\ timeout # 0 /\ elapsed > timeout

\* execute_as_thread: the timeout test, raise TimeoutException
ExecTimeout ==
    /\ thr.fn = "execute_as_thread" /\ thr.pc = "timeout"
    /\ LET elapsed == thr.now - thr.start_time
       IN  thr' = IF timed_out(thr.has_timeout, thr.timeout, elapsed)
                  THEN [thr EXCEPT !.elapsed = elapsed, !.pc = "done",
                                   !.result = "TimeoutException"]
                  ELSE [thr EXCEPT !.elapsed = elapsed, !.pc = "sleep"]
    /\ UNCHANGED ThreadOtherVars

\* execute_as_thread: time.sleep(join_sleep), and the loop again
ExecSleep ==
    /\ thr.fn = "execute_as_thread" /\ thr.pc = "sleep"
    /\ thr' = [thr EXCEPT !.pc = "is_alive", !.seen_alive = FALSE,
                          !.broke = "unevaluated"]
    /\ UNCHANGED ThreadOtherVars

\* interruptible_join: end_time
JoinStart ==
    /\ thr.fn = "interruptible_join" /\ thr.pc = "called"
    /\ thr' = [thr EXCEPT !.start_time = thr.now,
                          !.end_time = IF thr.has_timeout
                                       THEN thr.now + thr.timeout ELSE 0,
                          !.pc = "while"]
    /\ UNCHANGED ThreadOtherVars

\* interruptible_join: while end_time is None or time.time() < end_time
JoinWhile ==
    /\ thr.fn = "interruptible_join" /\ thr.pc = "while"
    /\ thr' = IF ~thr.has_timeout \/ thr.now < thr.end_time
              THEN [thr EXCEPT !.pc = "sleep"]
              ELSE [thr EXCEPT !.pc = "final", !.elapsed = thr.now - thr.start_time]
    /\ UNCHANGED ThreadOtherVars

\* interruptible_join: time.sleep(0.1); if not thread.is_alive(): join, break
JoinSleepIsAlive ==
    /\ thr.fn = "interruptible_join" /\ thr.pc = "sleep"
    /\ thr' = IF ~thr.alive
              THEN [thr EXCEPT !.pc = "final", !.elapsed = thr.now - thr.start_time]
              ELSE [thr EXCEPT !.pc = "while"]
    /\ UNCHANGED ThreadOtherVars

\* the end of interruptible_join without the test of is_alive
join_result_unchecked(alive) == "returned"

\* interruptible_join: if thread.is_alive(): raise TimeoutException
join_result(alive) == IF alive THEN "TimeoutException" ELSE "returned"

JoinFinal ==
    /\ thr.fn = "interruptible_join" /\ thr.pc = "final"
    /\ thr' = [thr EXCEPT !.pc = "done", !.seen_alive = thr.alive,
                          !.result = join_result(thr.alive)]
    /\ UNCHANGED ThreadOtherVars

NextThread ==
    \/ Tick
    \/ ThreadFinishes
    \/ ExecStart
    \/ ExecIsAlive
    \/ ExecBreakJoin
    \/ ExecTimeout
    \/ ExecSleep
    \/ JoinStart
    \/ JoinWhile
    \/ JoinSleepIsAlive
    \/ JoinFinal

SpecThread == InitThread /\ [][NextThread]_vars

(***************************************************************************)
(* Vocabulary of the properties.                                           *)
(***************************************************************************)
LogIdx == 1..Len(log)
By(name) == {i \in LogIdx : log[i].by = name}

\* _prepare_remote has returned (starting then calls the superclass)
Prepared == pc = "prepared" \/ spawned

\* the subprocess of entry i exited with a return code other than 0
ExitedNonZero(i) == log[i].ex.io = <<"popen", "write", "wait">> /\ log[i].ex.rc # 0
ExitedZero(i)    == log[i].ex.io = <<"popen", "write", "wait">> /\ log[i].ex.rc = 0

\* the staging steps of _prepare_remote, ranked in the order of the spec
StagingRank(by) ==
    CASE by = "_create_remote_dirs" -> 1
      [] by = "_copy_child_script" -> 2
      [] by = "_copy_dependencies_module" -> 3
      [] by = "_copy_workspace" -> 4
      [] by = "_build_push_dests" -> 5
      [] by = "_push_files_to_dst.mkdir" -> 5
      [] by = "_push_files_to_dst.transfer" -> 5
      [] OTHER -> 0
Staging == {i \in LogIdx : StagingRank(log[i].by) > 0}

\* p lies below q, component by component
SubPath(p, q) == p # q /\ startswith(p, q \o <<"/">>)

SeqRange(seq) == {seq[i] : i \in 1..Len(seq)}

(***************************************************************************)
(* C1: deduplication keeps the ancestors and drops the descendants: for    *)
(* an all-strings push list of stattable directories, the push_dirs are    *)
(* exactly the configured directories that are not a sub-path of another   *)
(* configured directory (["/a","/a/b","/a/c","/d"] gives ["/a","/d"]).     *)
(* The code drops the ancestor instead.                                    *)
(***************************************************************************)
C1_Configured == {rstrip(cfg.push[i].val) : i \in 1..Len(cfg.push)}

\* C1: the push_dirs are the configured directories that lie under no other
C1_DedupKeepsAncestors ==
    (/\ pc = "planned"
     /\ plan.done = "returned"
     /\ AllStrings(cfg.push)
     /\ \A p \in C1_Configured : isdir(p))
    => {d.local : d \in SeqRange(plan.dirs)}
         = {p \in C1_Configured : ~\E q \in C1_Configured : SubPath(p, q)}

(***************************************************************************)
(* C2: once _prepare_remote has returned, workspace_pushed is true iff     *)
(* this worker copied the local workspace: false when remote_workspace is  *)
(* set, false when the copy workspace check exited 0, true when            *)
(* remote_workspace is unset and the check is unset or exited non-zero.    *)
(***************************************************************************)
C2_CheckExitedZero    == \E i \in By("copy_workspace_check") : ExitedZero(i)
C2_CheckExitedNonZero == \E i \in By("copy_workspace_check") : ExitedNonZero(i)
C2_WorkspaceCopied ==
    \E i \in By("_copy_workspace") :
        log[i].ex.cmd.op = "copy" /\ log[i].ex.done = "returned"

\* C2: the truth table of workspace_pushed once _prepare_remote has returned
C2_WorkspacePushed ==
    Prepared =>
      /\ setup_metadata.workspace_pushed = C2_WorkspaceCopied
      /\ cfg.remote_workspace # None => ~setup_metadata.workspace_pushed
      /\ C2_CheckExitedZero => ~setup_metadata.workspace_pushed
      /\ (cfg.remote_workspace = None
            /\ (~cfg.copy_workspace_check \/ C2_CheckExitedNonZero))
         => setup_metadata.workspace_pushed

C2_Witness ==
    /\ Prepared
    /\ cfg.remote_workspace = None
    /\ C2_CheckExitedNonZero
    /\ setup_metadata.workspace_pushed

(***************************************************************************)
(* C3: a run of _prepare_remote that reaches workspace staging stages the  *)
(* workspace by exactly one command: a link to remote_workspace when that  *)
(* is set, else a copy of the local workspace with workspace_exclude when  *)
(* should_transfer_workspace is true, else a link to the local workspace   *)
(* path; no copy of the workspace is issued on the link paths.             *)
(***************************************************************************)
C3_Staged == workspace_paths.remote # None

C3_Expected(c) ==
    IF cfg.remote_workspace # None
    THEN /\ c.op = "link"
         /\ c.src.path = cfg.remote_workspace
         /\ c.dst.path = workspace_paths.remote
    ELSE IF should_transfer
    THEN /\ c.op = "copy"
         /\ c.src = LocalSide(workspace_paths.local)
         /\ c.dst = remote_copy_path(cfg.index, remote_testplan_path)
         /\ c.exclude = "workspace_exclude"
    ELSE /\ c.op = "link"
         /\ c.src.path = workspace_paths.local
         /\ c.dst.path = workspace_paths.remote

\* C3: exactly one workspace command, the one the configuration selects
C3_OneWorkspaceAction ==
    /\ Cardinality(By("_copy_workspace")) = IF C3_Staged THEN 1 ELSE 0
    /\ \A i \in By("_copy_workspace") : C3_Expected(log[i].ex.cmd)
    /\ \A i \in LogIdx :
         (log[i].ex.cmd.op = "copy" /\ log[i].ex.cmd.src = LocalSide(LocalWorkspace))
         => /\ log[i].by = "_copy_workspace"
            /\ cfg.remote_workspace = None
            /\ should_transfer

C3_Witness ==
    /\ pc = "push"
    /\ cfg.remote_workspace = None
    /\ ~should_transfer
    /\ \E i \in By("_copy_workspace") :
         log[i].ex.cmd.op = "link" /\ log[i].ex.done = "returned"

(***************************************************************************)
(* C4: the staging commands of _prepare_remote are issued in the order     *)
(* remote directory creation, child script copy, dependencies module copy  *)
(* (if TESTPLAN_DEPENDENCIES_PATH is set), workspace staging, push         *)
(* transfers, and none is issued before the previous one has returned.     *)
(***************************************************************************)
C4_Has(rank) == \E i \in Staging : StagingRank(log[i].by) = rank

\* C4: staging commands appear in rank order, each after the previous returned
C4_StagingOrder ==
    /\ \A i, j \in Staging :
         i < j => /\ log[i].ex.done = "returned"
                  /\ StagingRank(log[i].by) <= StagingRank(log[j].by)
                  /\ StagingRank(log[j].by) < 5
                       => StagingRank(log[i].by) < StagingRank(log[j].by)
    /\ C4_Has(2) => C4_Has(1)
    /\ C4_Has(3) => C4_Has(2) /\ cfg.deps_path
    /\ C4_Has(4) => C4_Has(2) /\ (cfg.deps_path => C4_Has(3))
    /\ C4_Has(5) => C4_Has(4)

C4_Witness ==
    /\ cfg.deps_path
    /\ \E i \in By("_push_files_to_dst.transfer") : log[i].ex.done = "returned"
    /\ pc = "running"

(***************************************************************************)
(* C5: push shape detection: a push list that mixes strings with tuples    *)
(* always fails with BadPushConfig, whatever the strings are, while a list *)
(* of only strings and a list of only 2-tuples are accepted.  The code     *)
(* accepts a mixed list whose strings have two characters.                 *)
(***************************************************************************)
C5_Mixed ==
    /\ \E i \in 1..Len(cfg.push) : cfg.push[i].kind = "str"
    /\ \E i \in 1..Len(cfg.push) : cfg.push[i].kind = "tuple"

C5_AllPairs ==
    \A i \in 1..Len(cfg.push) : cfg.push[i].kind = "tuple" /\ PyLen(cfg.push[i]) = 2

\* C5: mixed push lists raise BadPushConfig, uniform ones do not
C5_ShapeDetection ==
    pc = "planned" =>
      /\ C5_Mixed => plan.why = "BadPushConfig"
      /\ (AllStrings(cfg.push) \/ C5_AllPairs) => plan.why # "BadPushConfig"

(***************************************************************************)
(* C6: MetadataPull is idempotent: every response to a MetadataPull is a   *)
(* Metadata message carrying the worker's SetupMetadata, all with the same *)
(* content, and once _prepare_remote has returned no field of that         *)
(* SetupMetadata changes, through stop and abort.                          *)
(***************************************************************************)
C6_Payload == metadata_payload(setup_metadata, workspace_paths)

C6_SameMetadata ==
    \A i \in 1..Len(responses) :
        /\ responses[i].msg = "Metadata"
        /\ responses[i].data = C6_Payload

C6_Frozen == Prepared => C6_Payload' = C6_Payload

\* C6: every response equals the worker's metadata, which is frozen once prepared
C6_MetadataPullIdempotent == [](C6_SameMetadata) /\ [][C6_Frozen]_vars

C6_Witness ==
    /\ Len(responses) = 2
    /\ responses[1].data.push_dirs # NoneList
    /\ responses[1].data.workspace_pushed
    /\ pc = "aborted"
    /\ By("super.stopping") = {}
    /\ By("stopping._fetch_results") # {}

(***************************************************************************)
(* C7: stop runs _fetch_results, then the pull (only when a pull list is   *)
(* configured), then the superclass teardown: the teardown starts only     *)
(* after _fetch_results and every configured pull entry have returned, and *)
(* with an empty pull list nothing is pulled.                              *)
(***************************************************************************)
C7_Pulls == By("_pull_files.transfer") \cup By("_pull_files.makedirs_error")

\* C7: super.stopping comes after a returned fetch and all configured pulls
C7_StopOrder ==
    /\ \A k \in By("super.stopping") :
         /\ \E i \in By("stopping._fetch_results") :
              /\ i < k
              /\ log[i].ex.done = "returned"
              /\ \A j \in C7_Pulls : i < j
         /\ Cardinality(C7_Pulls) = Len(cfg.pull)
         /\ \A j \in C7_Pulls : j < k /\ log[j].ex.done = "returned"
    /\ \A j \in C7_Pulls :
         \E i \in By("stopping._fetch_results") : i < j /\ log[i].ex.done = "returned"
    /\ cfg.pull = <<>> => C7_Pulls = {}

C7_Witness ==
    /\ pc = "stopped"
    /\ Len(cfg.pull) = 2
    /\ By("_pull_files.transfer") # {}
    /\ By("super.stopping") # {}

(***************************************************************************)
(* C8: abort runs _fetch_results best-effort: when the fetch copy command  *)
(* fails (non-zero exit, or any other exception), the error is logged and  *)
(* swallowed, abort does not raise, and the superclass abort is the next   *)
(* thing abort does.                                                       *)
(***************************************************************************)
C8_FailedFetch == {i \in By("aborting._fetch_results") : log[i].ex.done = "raised"}

\* C8: a failed fetch in abort is logged, swallowed and followed by super.aborting
C8_AbortFetchBestEffort ==
    \A i \in C8_FailedFetch :
        /\ log[i].ex.exc \in {"RuntimeError", "OSError"}
        /\ exc = NoExc
        /\ i < Len(log) /\ log[i + 1].by = "aborting.logged_error"
        /\ \/ pc = "abort_super" /\ i + 1 = Len(log) /\ ENABLED SuperAborting
           \/ /\ pc = "aborted"
              /\ i + 2 = Len(log)
              /\ log[i + 2].by = "super.aborting"

C8_Witness ==
    /\ pc = "aborted"
    /\ spawned
    /\ \E i \in C8_FailedFetch : ExitedNonZero(i)

(***************************************************************************)
(* C9: errors during pull are best-effort: a failure while pulling an      *)
(* entry (local directory creation, or a failing copy command) is logged   *)
(* and never raised out of stop.  The code raises the failure of the copy  *)
(* command out of stop, before the superclass teardown.                    *)
(***************************************************************************)
C9_PullNeverRaises ==
    \A i \in C7_Pulls :
        (log[i].ex.done = "raised" \/ log[i].by = "_pull_files.makedirs_error")
        => ~(pc = "stop_failed" /\ i = Len(log))

(***************************************************************************)
(* C10: a checked command failure during staging is fatal: when a remote   *)
(* mkdir, link or transfer of _prepare_remote exits non-zero,              *)
(* _prepare_remote fails there, no later staging command is issued and the *)
(* remote subprocess is never spawned.                                     *)
(***************************************************************************)
C10_StagingFailureFatal ==
    \A i \in Staging :
        ExitedNonZero(i) =>
          /\ log[i].ex.done = "raised"
          /\ log[i].ex.exc = "RuntimeError"
          /\ \A j \in Staging : j <= i
          /\ ~spawned
          /\ By("super.starting") = {}
          /\ pc \in {"failed", "abort_super", "aborted", "blocked"}
          /\ pc = "failed" => exc = [type |-> "RuntimeError",
                                     why |-> "RemoteCommandFailed"]

C10_Witness ==
    /\ pc = "failed"
    /\ Len(PushTodo) >= 2
    /\ idx = 1
    /\ \E i \in By("_push_files_to_dst.transfer") : ExitedNonZero(i)

(***************************************************************************)
(* C11: when push is a list of sources only, push_relative_dir is set and  *)
(* some source is not under it, _prepare_remote fails with                 *)
(* PushNotUnderRoot before any transfer of a push entry is issued, also    *)
(* for the entries that precede the offending one and are under the root.  *)
(***************************************************************************)
C11_Case ==
    /\ AllStrings(cfg.push)
    /\ cfg.push_relative_dir # None
    /\ \E i \in 1..Len(cfg.push) : ~is_subdir(cfg.push[i].val, cfg.push_relative_dir)

\* the remote push dir was created: _build_push_dests went on to the sources
C11_Reached == \E i \in By("_build_push_dests") : log[i].ex.done = "returned"

\* C11: a source outside the root fails the push step before any push transfer
C11_PushNotUnderRoot ==
    C11_Case =>
      /\ By("_push_files_to_dst.transfer") = {}
      /\ By("_push_files_to_dst.mkdir") = {}
      /\ plan.files = <<>> /\ plan.dirs = <<>>
      /\ ~Prepared
      /\ C11_Reached =>
            /\ pc \in {"failed", "abort_super", "aborted", "blocked"}
            /\ pc = "failed" => exc = [type |-> "RuntimeError",
                                       why |-> "PushNotUnderRoot"]

C11_Witness ==
    /\ C11_Case
    /\ C11_Reached
    /\ pc = "failed"
    /\ exc.why = "PushNotUnderRoot"
    /\ is_subdir(cfg.push[1].val, cfg.push_relative_dir)
    /\ isdir(cfg.push[1].val)

(***************************************************************************)
(* C12: destinations of a push list of sources only.  With                 *)
(* push_relative_dir set, each source under the root is sent to            *)
(* <remote_testplan_path>/push_files/<path of the source relative to the   *)
(* root> and setup_metadata.push_dir is <remote_testplan_path>/push_files; *)
(* without it each source is sent to its own absolute path and             *)
(* setup_metadata.push_dir stays None.  ("p" abbreviates push_files; the   *)
(* local host is POSIX, so the paths are in POSIX form as they are.)       *)
(***************************************************************************)
C12_Case == cfg.push # <<>> /\ AllStrings(cfg.push)

C12_PushDir == define_remote_testplan_path \o <<"/", "p">>

\* the part of source s after the root
C12_Relative(s, root) ==
    IF s = root THEN <<"/", ".">> ELSE SubSeq(s, Len(root) + 1, Len(s))

C12_Dest(s) ==
    IF cfg.push_relative_dir # None
    THEN C12_PushDir \o C12_Relative(s, cfg.push_relative_dir)
    ELSE s

\* the local path and the destination belong to one configured source
C12_Configured(local, remote) ==
    \E j \in 1..Len(cfg.push) :
        /\ rstrip(cfg.push[j].val) = local
        /\ remote = C12_Dest(cfg.push[j].val)

\* C12: every planned and every transferred entry goes to the synthesised path
C12_PushDestinations ==
    C12_Case =>
      /\ \A k \in 1..Len(PushTodo) :
            C12_Configured(PushTodo[k].local, PushTodo[k].remote)
      /\ \A i \in By("_push_files_to_dst.transfer") :
            /\ log[i].ex.cmd.src.host = "local"
            /\ log[i].ex.cmd.dst.host = cfg.index
            /\ C12_Configured(log[i].ex.cmd.src.path, log[i].ex.cmd.dst.path)
      /\ cfg.push_relative_dir = None => setup_metadata.push_dir = None
      /\ (cfg.push_relative_dir # None /\ (Prepared \/ PushTodo # <<>>))
         => setup_metadata.push_dir = C12_PushDir

C12_Witness ==
    /\ C12_Case
    /\ Prepared
    /\ cfg.push_relative_dir = P_a
    /\ setup_metadata.push_dir = <<"/", "T", "/", "p">>
    /\ \E i \in By("_push_files_to_dst.transfer") :
         /\ log[i].ex.cmd.src.path = P_ab
         /\ log[i].ex.cmd.dst.path = <<"/", "T", "/", "p", "/", "b">>
         /\ log[i].ex.done = "returned"

(***************************************************************************)
(* C13: the local working directory must lie inside the local workspace.   *)
(* If it does not, _prepare_remote fails with WorkingDirOutsideWorkspace   *)
(* and the remote subprocess is never spawned; whenever the subprocess is  *)
(* spawned, working_dirs.remote is workspace_paths.remote joined with the  *)
(* path of the working directory relative to the local workspace.          *)
(***************************************************************************)
C13_Inside ==
    \/ cfg.pwd = LocalWorkspace
    \/ startswith(cfg.pwd, LocalWorkspace \o <<"/">>)

\* the workspace was staged: _prepare_remote went on to the working directories
C13_Reached == \E i \in By("_copy_workspace") : log[i].ex.done = "returned"

\* C13: outside the workspace nothing is spawned; spawned, the remote dir is relative
C13_WorkingDir ==
    /\ ~C13_Inside =>
          /\ ~spawned
          /\ ~Prepared
          /\ By("super.starting") = {}
          /\ Staging \subseteq {i \in LogIdx : StagingRank(log[i].by) < 5}
          /\ (C13_Reached /\ pc # "working_dir") =>
                /\ pc \in {"failed", "abort_super", "aborted", "blocked"}
                /\ pc = "failed" => exc = [type |-> "RuntimeError",
                                           why |-> "WorkingDirOutsideWorkspace"]
    /\ spawned =>
          /\ C13_Inside
          /\ working_dirs.local = cfg.pwd
          /\ working_dirs.remote =
                workspace_paths.remote \o C12_Relative(cfg.pwd, LocalWorkspace)

C13_Witness ==
    /\ spawned
    /\ cfg.pwd = <<"/", "w", "/", "f">>
    /\ working_dirs.remote = <<"/", "T", "/", "w", "/", "f">>

C13_WitnessOutside ==
    /\ ~C13_Inside
    /\ pc = "failed"
    /\ exc.why = "WorkingDirOutsideWorkspace"

(***************************************************************************)
(* C14: the command line built by _proc_cmd contains                       *)
(* --testplan-deps <TESTPLAN_DEPENDENCIES_PATH> exactly when that          *)
(* environment variable is set and the workspace was not transferred by    *)
(* this worker (workspace_pushed is false), which includes the case where  *)
(* remote_workspace is set and the copy workspace check exited non-zero.   *)
(* The code decides by _should_transfer_workspace instead.                 *)
(***************************************************************************)
C14_HasDepsFlag(cmd) ==
    \E i \in 1..Len(cmd.deps) : cmd.deps[i] = "--testplan-deps"

\* C14: --testplan-deps is passed iff the variable is set and nothing was pushed
C14_DepsFlag ==
    \A k \in 1..Len(child_cmd) :
        /\ C14_HasDepsFlag(child_cmd[k])
              <=> (cfg.deps_path /\ ~setup_metadata.workspace_pushed)
        /\ C14_HasDepsFlag(child_cmd[k]) =>
              child_cmd[k].deps = <<"--testplan-deps", "TESTPLAN_DEPENDENCIES_PATH">>

(***************************************************************************)
(* C15: _prepare_remote creates both mandatory remote directories: by the  *)
(* time the child script is copied, a remote mkdir has been issued for     *)
(* remote_testplan_path and for remote_testplan_runpath                    *)
(* (<remote_testplan_path>/runpath/<host>).  The code issues the mkdir of  *)
(* remote_testplan_path only.                                              *)
(***************************************************************************)
C15_MkdirBefore(k, dir) ==
    \E i \in 1..(k - 1) :
        /\ log[i].ex.cmd.op = "mkdir"
        /\ log[i].ex.cmd.dst = remote_copy_path(cfg.index, dir)

\* C15: both mandatory directories have a mkdir before the child script copy
C15_BothDirsCreated ==
    \A k \in By("_copy_child_script") :
        /\ C15_MkdirBefore(k, define_remote_testplan_path)
        /\ C15_MkdirBefore(k, define_remote_testplan_runpath(cfg.index))

\* the half of C15 that the code does
C15_TestplanPathCreated ==
    \A k \in By("_copy_child_script") :
        C15_MkdirBefore(k, define_remote_testplan_path)

(***************************************************************************)
(* C16: on abort _fetch_results is bounded: after abort is invoked, the    *)
(* termination of the subprocess by the superclass is eventually reached,  *)
(* even when the fetch copy command never exits.  The code waits for the   *)
(* copy subprocess without a timeout.                                      *)
(***************************************************************************)
C16_AbortInvoked == By("aborting._fetch_results") # {}
C16_SuperReached == By("super.aborting") # {}

\* C16: every abort leads to the superclass termination
C16_AbortTerminates == C16_AbortInvoked ~> C16_SuperReached

\* abort leads to the superclass termination when the copy command exits or
\* cannot be started
C16_AbortTerminatesOnExit ==
    (\E i \in By("aborting._fetch_results") : log[i].ex.done # "blocked")
    ~> C16_SuperReached

(***************************************************************************)
(* C17: for any list of push directories, of any length, with or without   *)
(* duplicates, the deduplicated push_dirs contains no two entries where    *)
(* the local path of one is a prefix of the local path of the other.       *)
(***************************************************************************)
C17_Built == pc = "planned" /\ plan.done = "returned"

\* C17: no local path of push_dirs is a prefix of another entry's
C17_NoPrefixPair ==
    C17_Built =>
      \A i, j \in 1..Len(plan.dirs) :
          i # j => ~startswith(plan.dirs[i].local, plan.dirs[j].local)

C17_Witness ==
    /\ C17_Built
    /\ AllStrings(cfg.push)
    /\ Len(cfg.push) = 4
    /\ \E i, j \in 1..4 : i < j /\ cfg.push[i] = cfg.push[j] /\ isdir(cfg.push[i].val)
    /\ \E i, j \in 1..4 :
         /\ i < j
         /\ isdir(cfg.push[i].val) /\ isdir(cfg.push[j].val)
         /\ cfg.push[i].val # cfg.push[j].val
         /\ startswith(cfg.push[i].val, cfg.push[j].val)
    /\ Len(plan.dirs) = 2

(***************************************************************************)
(* C18: deduplication preserves input order: the directories that survive  *)
(* appear in push_dirs in the same relative order in which they were       *)
(* listed in the push configuration.  The code sorts the directories by    *)
(* local path, as the description of the deduplication says it does.       *)
(***************************************************************************)
\* the local path of the i-th configured entry, as the classification sees it
C18_Local(i) ==
    IF AllStrings(cfg.push) THEN rstrip(cfg.push[i].val)
    ELSE rstrip(Elem(cfg.push[i], 1))

\* C18: any two surviving directories stand in push_dirs as they were listed
C18_InputOrder ==
    C17_Built =>
      \A i, j \in 1..Len(plan.dirs) :
          i < j => \E a, b \in 1..Len(cfg.push) :
                     /\ a < b
                     /\ C18_Local(a) = plan.dirs[i].local
                     /\ C18_Local(b) = plan.dirs[j].local

\* C18 as amended: the surviving directories stand in ascending order of
\* their local paths (the order of str), whatever the order of the list
C18_SortedOrder ==
    C17_Built =>
      /\ \A i, j \in 1..Len(plan.dirs) :
            i < j => StrLess(plan.dirs[i].local, plan.dirs[j].local)
      /\ \A i \in 1..Len(plan.dirs) :
            \E a \in 1..Len(cfg.push) : C18_Local(a) = plan.dirs[i].local

C18_Witness ==
    /\ C17_Built
    /\ Len(cfg.push) = 3
    /\ cfg.push[1] = Str(P_d) /\ cfg.push[2] = Str(P_ac) /\ cfg.push[3] = Str(P_ab)
    /\ [i \in 1..Len(plan.dirs) |-> plan.dirs[i].local] = <<P_ab, P_ac, P_d>>

(***************************************************************************)
(* C19: after the push plan is built, push_files and push_dirs taken       *)
(* together contain no entry whose local path is a strict sub-path of      *)
(* another entry's local path; in particular a file located inside a       *)
(* pushed directory is not also listed.  The code deduplicates the         *)
(* directories only, as the description of the deduplication says.         *)
(***************************************************************************)
C19_Locals ==
    {plan.files[i].local : i \in 1..Len(plan.files)}
      \cup {plan.dirs[i].local : i \in 1..Len(plan.dirs)}

\* C19: no planned entry lies below another planned entry
C19_NoSubPathAtAll ==
    C17_Built => \A p, q \in C19_Locals : ~SubPath(p, q)

\* the configured sources that are files, in the order of the configuration
C19_ConfiguredFiles ==
    SelectSeq([i \in 1..Len(cfg.push) |-> C18_Local(i)], LAMBDA p : isfile(p))

\* C19 as amended: no directory of push_dirs lies below another directory of
\* push_dirs, and push_files lists every configured file, also one that
\* lies inside a pushed directory
C19_DirsOnlyDeduplicated ==
    C17_Built =>
      /\ \A i, j \in 1..Len(plan.dirs) :
            ~SubPath(plan.dirs[i].local, plan.dirs[j].local)
      /\ [i \in 1..Len(plan.files) |-> plan.files[i].local] = C19_ConfiguredFiles

C19_Witness ==
    /\ C17_Built
    /\ Len(cfg.push) = 3
    /\ \E i \in 1..Len(plan.files), j \in 1..Len(plan.dirs) :
         SubPath(plan.files[i].local, plan.dirs[j].local)
    /\ \E a, b \in 1..Len(cfg.push) :
         a < b /\ isdir(C18_Local(a)) /\ C18_Local(a) = C18_Local(b)
    /\ Len(plan.dirs) = 1

(***************************************************************************)
(* C20: an invalid push shape is a configuration-time error: when push is  *)
(* neither all strings nor all pairs of length two, BadPushConfig is       *)
(* raised before the worker has issued any remote command or transfer (no  *)
(* remote directory created, no child script or workspace copied).  The    *)
(* code raises it in the push step, the last of _prepare_remote.           *)
(***************************************************************************)
C20_Invalid == ~AllStrings(cfg.push) /\ ~AllLenTwo(cfg.push)

C20_Issued == {i \in LogIdx : log[i].ex.cmd.op # "none"}

\* C20: when BadPushConfig is raised, no command has been issued
C20_BadPushConfigFirst ==
    (pc = "failed" /\ exc.why = "BadPushConfig") =>
      /\ C20_Invalid
      /\ C20_Issued = {}

\* where the code raises it: after the workspace was staged
C20_RaisedAfterStaging ==
    /\ C20_Invalid
    /\ pc = "failed"
    /\ exc = [type |-> "TypeError", why |-> "BadPushConfig"]
    /\ \E i \in By("_copy_workspace") : log[i].ex.done = "returned"

(***************************************************************************)
(* C21: the worker has one canonical attribute remote_push_dir: after      *)
(* _prepare_remote with a non-empty push list of sources only and          *)
(* push_relative_dir set, self.remote_push_dir is                          *)
(* <remote_testplan_path>/push_files, the value of                         *)
(* setup_metadata.push_dir, and no differently named attribute holds that  *)
(* value instead.  The code assigns self._remote_push_dir and leaves       *)
(* self.remote_push_dir None.                                              *)
(***************************************************************************)
C21_Case ==
    /\ Prepared
    /\ C12_Case
    /\ cfg.push_relative_dir # None

\* C21: remote_push_dir holds the push dir and no shadow attribute exists
C21_CanonicalPushDir ==
    C21_Case =>
      /\ attrs.remote_push_dir = C12_PushDir
      /\ attrs.remote_push_dir = setup_metadata.push_dir
      /\ attrs.u_remote_push_dir = <<"unset">>

\* what the code leaves behind
C21_Shadowed ==
    /\ C21_Case
    /\ attrs.remote_push_dir = None
    /\ attrs.u_remote_push_dir = C12_PushDir
    /\ setup_metadata.push_dir = C12_PushDir

(***************************************************************************)
(* C22: workers of one pool never collide on the local side: whatever the  *)
(* interleaving of the stop and abort calls of the workers, the local      *)
(* paths written by the _fetch_results of two distinct workers are neither *)
(* equal nor one below the other, because each worker writes the           *)
(* subdirectory of the pool's run directory that is named after its host.  *)
(***************************************************************************)
C22_Workers == {pool.workers[i].worker : i \in DOMAIN pool.workers}
C22_WrittenBy(h) == {f.path : f \in {g \in local_files : g.by = h}}
C23_Uids == {pool.workers[i].uid : i \in DOMAIN pool.workers}
C23_OneWorkerPerHost ==
    pool.phase = "added" =>
      /\ C23_Uids = DOMAIN pool.hosts
      /\ Len(pool.workers) = Cardinality(DOMAIN pool.hosts)
      /\ \A i, j \in DOMAIN pool.workers :
            pool.workers[i].worker.index = pool.workers[j].worker.index => i = j
      /\ \A i \in DOMAIN pool.workers :
            LET r == pool.workers[i]
            IN  /\ r.worker.index = r.uid
                /\ r.worker.workers = pool.hosts[r.uid]
                /\ r.worker.pool_type = pool.pool_type
                /\ r.worker.parent = "RemotePool"
                /\ r.worker.cfg_parent = "RemotePool.cfg"
C23_Witness ==
    /\ pool.phase = "added"
    /\ Len(pool.workers) = 3
    /\ pool.pool_type = "process"
    /\ \E i, j \in DOMAIN pool.workers :
          pool.workers[i].worker.workers # pool.workers[j].worker.workers

(***************************************************************************)
(* C24: the remote subprocess is spawned only after _prepare_remote has    *)
(* returned: when it is spawned, the remote directory creation, the child  *)
(* script copy, the workspace staging and the transfer of every push       *)
(* entry have been issued and have returned, all of them before the call   *)
(* of the superclass; the step that spawns starts where _prepare_remote    *)
(* has returned; and a worker whose _prepare_remote failed is not spawned. *)
(***************************************************************************)
C24_Pushed(k) ==
    \E i \in By("_push_files_to_dst.transfer") :
        /\ log[i].ex.cmd.src = LocalSide(PushTodo[k].local)
        /\ log[i].ex.cmd.dst = remote_copy_path(cfg.index, PushTodo[k].remote)
        /\ log[i].ex.done = "returned"
C24_StagingFailed ==
    \/ pc = "failed"
    \/ \E i \in Staging \cup By("copy_workspace_check") :
          log[i].ex.done # "returned"
C24_Staged ==
    /\ spawned =>
         /\ Cardinality(By("super.starting")) = 1
         /\ \A s \in By("super.starting"), i \in Staging : i < s
         /\ \A i \in Staging : log[i].ex.done = "returned"
         /\ By("_create_remote_dirs") # {}
         /\ By("_copy_child_script") # {}
         /\ By("_copy_workspace") # {}
         /\ \A k \in 1..Len(PushTodo) : C24_Pushed(k)
         /\ setup_metadata.workspace_paths = "self._workspace_paths"
    /\ C24_StagingFailed => ~spawned
C24_SpawnStep == (~spawned /\ spawned') => (pc = "prepared" /\ pc' = "running")
C24_SpawnAfterPrepare == [](C24_Staged) /\ [][C24_SpawnStep]_vars
C24_Witness ==
    /\ spawned
    /\ Len(PushTodo) >= 2
    /\ By("copy_workspace_check") # {}
    /\ By("_copy_dependencies_module") # {}

(***************************************************************************)
(* C25: for every push entry, file or directory, the remote mkdir of the   *)
(* destination's parent directory (the destination up to its last '/')     *)
(* is issued and has returned before the transfer of the entry begins:     *)
(* every push transfer comes right after a returned mkdir, on the same     *)
(* host, of the directory that holds the destination's last component;     *)
(* after a mkdir that did not return, no transfer and no further mkdir of  *)
(* the push is issued.                                                     *)
(***************************************************************************)
C25_PushSteps == By("_push_files_to_dst.mkdir") \cup By("_push_files_to_dst.transfer")
C25_ParentOf(m, d) ==
    /\ Len(m) < Len(d)
    /\ SubSeq(d, 1, Len(m)) = m
    /\ d[Len(m) + 1] = "/"
    /\ \A k \in (Len(m) + 2)..Len(d) : d[k] # "/"
C25_MkdirBeforeTransfer ==
    /\ \A i \in By("_push_files_to_dst.transfer") :
         /\ i > 1
         /\ log[i - 1].by = "_push_files_to_dst.mkdir"
         /\ log[i - 1].ex.cmd.op = "mkdir"
         /\ log[i - 1].ex.done = "returned"
         /\ log[i - 1].ex.cmd.dst.host = log[i].ex.cmd.dst.host
         /\ C25_ParentOf(log[i - 1].ex.cmd.dst.path, log[i].ex.cmd.dst.path)
         /\ \E k \in 1..Len(PushTodo) :
               /\ log[i].ex.cmd.src.path = PushTodo[k].local
               /\ log[i].ex.cmd.dst.path = PushTodo[k].remote
    /\ \A i \in By("_push_files_to_dst.mkdir") :
         log[i].ex.done # "returned" => \A j \in C25_PushSteps : j <= i
C25_Witness ==
    /\ \E i, j \in By("_push_files_to_dst.transfer") :
          /\ isfile(log[i].ex.cmd.src.path) /\ log[i].ex.done = "returned"
          /\ isdir(log[j].ex.cmd.src.path) /\ log[j].ex.done = "returned"

(***************************************************************************)
(* C26: _execute_cmd returns the exit code of the subprocess and fails if  *)
(* and only if check is true and the exit code is not 0: a checked command *)
(* that returned has exit code 0, and an unchecked command (the copy       *)
(* workspace check) whose subprocess exits with another code returns that  *)
(* code to its caller without an error.                                    *)
(***************************************************************************)
C26_Exited(i) == log[i].ex.io = <<"popen", "write", "wait">>
C26_Delivered(i) ==
    log[i].by = "copy_workspace_check" =>
      /\ should_transfer = (log[i].ex.rc # 0)
      /\ i = Len(log) => (pc = prepare_remote[1] /\ exc = NoExc)
C26_ExecContract ==
    \A i \in LogIdx :
        C26_Exited(i) =>
          /\ log[i].ex.done \in {"raised", "returned"}
          /\ log[i].ex.done = "raised" <=> (log[i].ex.check /\ log[i].ex.rc # 0)
          /\ log[i].ex.done = "raised" => log[i].ex.exc = "RuntimeError"
          /\ (log[i].ex.check /\ log[i].ex.done = "returned") => log[i].ex.rc = 0
          /\ ~log[i].ex.check => C26_Delivered(i)
C26_Witness ==
    /\ \E i \in LogIdx :
          C26_Exited(i) /\ ~log[i].ex.check /\ log[i].ex.rc # 0
    /\ \E i \in LogIdx :
          C26_Exited(i) /\ log[i].ex.check /\ log[i].ex.rc # 0
    /\ \E i \in LogIdx :
          C26_Exited(i) /\ log[i].ex.check /\ log[i].ex.rc = 0

(***************************************************************************)
(* C27: every command run by _execute_cmd is primed in this order: the     *)
(* subprocess is started with a writable standard input, the line "y\n"    *)
(* is written to it, the input is closed, and only then is the subprocess  *)
(* waited for; no subprocess is waited for with its input still open.      *)
(* The code writes and waits, and never closes the input.                  *)
(***************************************************************************)
C27_Waited == {i \in LogIdx : "wait" \in SeqRange(log[i].ex.io)}
C27_InputClosedBeforeWait ==
    \A i \in C27_Waited : log[i].ex.io = <<"popen", "write", "close", "wait">>
C27_WaitedWithOpenInput ==
    \E i \in C27_Waited :
        /\ log[i].ex.io = <<"popen", "write", "wait">>
        /\ log[i].ex.done = "returned"

(***************************************************************************)
(* C28: in _pull_files a failure of makedirs for one entry is logged and   *)
(* is not fatal: the transfer of that entry is skipped, and every entry    *)
(* that remains in the pull list is still processed, in list order: when   *)
(* stop has ended after a makedirs failure, every entry of the pull list   *)
(* has been processed.  The code gives up the remaining entries when the   *)
(* copy command of a later entry fails.                                    *)
(***************************************************************************)
C28_Rank(i) == Cardinality({k \in C7_Pulls : k <= i})
C28_StopEnded == pc \in {"stopped", "stop_failed"}
C28_RemainingProcessed ==
    \A i \in By("_pull_files.makedirs_error") :
        /\ i = Len(log) =>
              /\ exc = NoExc
              /\ pc = IF C28_Rank(i) < Len(cfg.pull) THEN "pull" ELSE "stop_super"
              /\ pc = "pull" => idx = C28_Rank(i) + 1
        /\ \A k \in By("_pull_files.transfer") :
              C28_Rank(k) <= Len(cfg.pull)
              /\ log[k].ex.cmd.src.path = rstrip(cfg.pull[C28_Rank(k)])
        /\ C28_StopEnded => Cardinality(C7_Pulls) = Len(cfg.pull)

\* what holds of the code: the makedirs failure itself never ends the loop
C28_MakedirsNotFatal ==
    \A i \in By("_pull_files.makedirs_error") :
        /\ i = Len(log) =>
              /\ exc = NoExc
              /\ pc = IF C28_Rank(i) < Len(cfg.pull) THEN "pull" ELSE "stop_super"
              /\ pc = "pull" => idx = C28_Rank(i) + 1
        /\ \A k \in By("_pull_files.transfer") :
              C28_Rank(k) <= Len(cfg.pull)
              /\ log[k].ex.cmd.src.path = rstrip(cfg.pull[C28_Rank(k)])
        /\ C28_StopEnded =>
              \/ Cardinality(C7_Pulls) = Len(cfg.pull)
              \/ \E k \in By("_pull_files.transfer") :
                    k > i /\ log[k].ex.done = "raised"
C28_GaveUp ==
    /\ pc = "stop_failed"
    /\ Len(cfg.pull) = 3
    /\ By("_pull_files.makedirs_error") # {}
    /\ Cardinality(C7_Pulls) = 2

(***************************************************************************)
(* C29: unlike abort, stop does not guard _fetch_results: when the fetch   *)
(* copy command fails during stop, the error propagates out of stop, the   *)
(* pull is not attempted and the superclass teardown is not invoked by     *)
(* that stop call.                                                         *)
(***************************************************************************)
C29_StopFetches == By("stopping._fetch_results")
C29_FetchFailed(i) == ExitedNonZero(i) \/ log[i].ex.exc = "OSError"
C29_StopFetchUnguarded ==
    \A i \in C29_StopFetches :
        C29_FetchFailed(i) =>
          /\ log[i].ex.done = "raised"
          /\ C7_Pulls = {}
          /\ By("super.stopping") = {}
          /\ pc # "stopped"
          /\ i = Len(log) => (pc = "stop_failed" /\ exc = Raised(log[i].ex)
                                /\ exc # NoExc)
          /\ i < Len(log) => log[i + 1].by = "aborting._fetch_results"
C29_Witness ==
    /\ pc = "stop_failed"
    /\ cfg.pull # <<>>
    /\ \E i \in C29_StopFetches : ExitedNonZero(i) /\ i = Len(log)

(***************************************************************************)
(* C30: abort issues the copy of _fetch_results in whatever lifecycle      *)
(* state the worker is in.  When abort is invoked before _prepare_remote   *)
(* has defined remote_testplan_runpath (the worker never ran), a copy      *)
(* command whose remote source is the undefined run directory is still     *)
(* issued; when it fails, the failure is logged and swallowed and the      *)
(* superclass abort still runs.                                            *)
(***************************************************************************)
C30_UndefinedFetch ==
    {i \in By("aborting._fetch_results") : log[i].ex.cmd.src.path = None}
C30_SuperRuns(i) ==
    \/ pc = "abort_super" /\ i = Len(log) /\ ENABLED SuperAborting
    \/ pc = "aborted" /\ i + 1 = Len(log) /\ log[i + 1].by = "super.aborting"
C30_AbortBeforePrepare ==
    /\ pc \in {"idle", "failed", "running", "stop_failed"} => ENABLED AbortFetch
    /\ pc = "idle" => remote_testplan_runpath = None
    /\ \A i \in C30_UndefinedFetch :
         /\ log[i].ex.cmd.op = "copy"
         /\ log[i].ex.cmd.src = remote_copy_path(cfg.index, None)
         /\ log[i].ex.cmd.dst = LocalSide(LocalRunpath)
         /\ ~spawned /\ By("super.starting") = {}
         /\ log[i].ex.done = "raised" =>
               /\ exc = NoExc
               /\ i < Len(log) /\ log[i + 1].by = "aborting.logged_error"
               /\ C30_SuperRuns(i + 1)
         /\ log[i].ex.done = "returned" => C30_SuperRuns(i)
C30_Witness ==
    /\ pc = "aborted"
    /\ Len(log) = 3
    /\ \E i \in C30_UndefinedFetch : ExitedNonZero(i)

(***************************************************************************)
(* C31: the deduplication compares raw path strings, not path components:  *)
(* a push directory is removed exactly when the next directory in          *)
(* ascending string order of the local paths starts with its local path    *)
(* string.  So of two sibling directories where the name of one is a       *)
(* string prefix of the name of the other (/a and /ab) the shorter one is  *)
(* removed, although neither contains the other.                           *)
(***************************************************************************)
C31_DirIdx ==
    {k \in 1..Len(cfg.push) : isdir(C18_Local(k)) /\ ~isfile(C18_Local(k))}
C31_ConfDirs == {C18_Local(k) : k \in C31_DirIdx}
C31_Later(p) == {q \in C31_ConfDirs : StrLess(p, q)}
C31_Next(p) ==
    CHOOSE q \in C31_Later(p) : \A r \in C31_Later(p) : r = q \/ StrLess(q, r)
C31_Removed(p) == C31_Later(p) # {} /\ startswith(C31_Next(p), p)
C31_PlannedDirs == {plan.dirs[i].local : i \in 1..Len(plan.dirs)}
C32_Done == thr.fn = "execute_as_thread" /\ thr.join /\ thr.pc = "done"
C32_JoinContract ==
    C32_Done =>
      /\ thr.result \in {"returned", "TimeoutException"}
      /\ thr.result = "returned" =>
            \/ ~thr.alive /\ ~thr.seen_alive
            \/ thr.has_break /\ thr.broke = "true"
      /\ thr.result = "TimeoutException" =>
            /\ thr.has_timeout /\ thr.timeout # 0
            /\ thr.elapsed > thr.timeout
            /\ thr.now - thr.start_time > thr.timeout
            /\ thr.seen_alive
            /\ thr.broke = IF thr.has_break THEN "false" ELSE "unevaluated"
      /\ ((~thr.has_timeout \/ thr.timeout = 0) /\ ~thr.has_break) =>
            (thr.result = "returned" /\ ~thr.alive)
C32_Witness ==
    /\ C32_Done
    /\ thr.result = "TimeoutException"
    /\ thr.has_break /\ thr.alive
    /\ thr.timeout = 1 /\ thr.elapsed = 2

(***************************************************************************)
(* C33: interruptible_join returns normally only if the thread is no       *)
(* longer alive, and raises TimeoutException exactly when a timeout was    *)
(* given and the thread is still alive once the timeout has elapsed; with  *)
(* timeout None it never raises, and it does not leave its loop while the  *)
(* thread is alive.                                                        *)
(***************************************************************************)
C33_Called == thr.fn = "interruptible_join"
C33_Done == C33_Called /\ thr.pc = "done"
C33_JoinContract ==
    /\ C33_Done =>
         /\ thr.result \in {"returned", "TimeoutException"}
         /\ thr.result = "returned" => ~thr.alive
         /\ thr.result = "TimeoutException" <=> thr.alive
         /\ thr.result = "TimeoutException" =>
               /\ thr.has_timeout
               /\ thr.seen_alive
               /\ thr.elapsed >= thr.timeout
               /\ thr.now >= thr.end_time
         /\ ~thr.has_timeout => thr.result = "returned"
    /\ (C33_Called /\ ~thr.has_timeout /\ thr.alive) =>
         thr.pc \in {"called", "while", "sleep"}
C33_Witness ==
    /\ C33_Done
    /\ thr.result = "TimeoutException"
    /\ thr.timeout = 2 /\ thr.elapsed = 2


====
